---- MODULE Spec2Model ----
(***************************************************************************)
(* Manifest acquisition and packaging pipeline of Steam Depot Online       *)
(* (src/app.py, class ManifestDownloader).                                 *)
(*                                                                         *)
(* The download thread runs run_batch_download, which calls                *)
(* _perform_download_operations per AppID, which calls get_manifest per    *)
(* file, which calls get (the mirror fetcher).  The GUI thread only        *)
(* touches the shared flag cancel_search.                                  *)
(***************************************************************************)
EXTENDS Integers, Sequences, FiniteSets, TLC

(***************************************************************************)
(* Program constants of get() (src/app.py:1736-1744).                      *)
(***************************************************************************)
\* the six URL templates, by host; the origin raw-file service is the last
url_list ==
    << "gcore.jsdelivr.net", "fastly.jsdelivr.net", "cdn.jsdelivr.net",
       "ghproxy.org", "raw.dgithub.xyz", "raw.githubusercontent.com" >>

\* what each URL template holds between its host and "{repo}": the
\* ghproxy.org template wraps the URL of the origin raw-file service
url_wrapped ==
    << << >>, << >>, << >>, << "https:", "raw.githubusercontent.com" >>, << >>, << >> >>

\* the text of URL i, cut at the slashes, up to "{repo}"
UrlText(i) == << "https:", url_list[i] >> \o url_wrapped[i]

\* line 1762: "raw.githubusercontent.com" in url
NamesRawHost(i) == \E k \in 1..Len(UrlText(i)) : UrlText(i)[k] = "raw.githubusercontent.com"

\* (variant: one more retry per URL)
max_retries_per_url_more == 1 + 1

max_retries_per_url == 1

overall_attempts == 2

NumMirrors == Len(url_list)

\* the value get() returns when it has no bytes (Python None), in the shape
\* of the byte values so that the two can be compared
None == [repo |-> 0, path |-> "None", mirror |-> 0]

\* no request of the download thread is in flight
NoReq == [kind |-> "none", repo |-> 0, mirror |-> 0]

\* HTTP answers of one mirror request: 200, 404, another status, or an
\* aiohttp.ClientError / asyncio.TimeoutError
Statuses == {"200", "404", "500", "err"}


(***************************************************************************)
(* Bounds of the model.                                                    *)
(***************************************************************************)
\* longest list of selected repositories
MaxRepos == 3

\* number of times the Download button is pressed
MaxDownloads == 1

\* number of times the Search button is pressed
MaxSearches == 2

\* longest list of selected repositories when the directory is not empty
MaxTreeRepos == 2

\* batch threads that may be started while another one is running
MaxExtraBatches == 1

(***************************************************************************)
(* Files, key documents and repositories of the environment.               *)
(***************************************************************************)
\* the paths that occur in the file trees
Paths ==
    {"key.vdf", "Sub/Key.vdf", "config.vdf", "100_555.manifest", "102_777.manifest",
     "readme.txt"}

\* os.path.basename(path.lower())
BaseLower(p) == IF p = "Sub/Key.vdf" THEN "key.vdf" ELSE p

\* path.lower().endswith(".manifest")
IsManifest(p) == p \in {"100_555.manifest", "102_777.manifest"}

\* path.lower().endswith(".vdf")
IsVdf(p) == p \in {"key.vdf", "Sub/Key.vdf", "config.vdf"}

\* position of a path in Python's string order
PathRank(p) ==
    CASE p = "100_555.manifest" -> 1
      [] p = "102_777.manifest" -> 2
      [] p = "Sub/Key.vdf" -> 3
      [] p = "config.vdf" -> 4
      [] p = "key.vdf" -> 5
      [] p = "readme.txt" -> 6

\* a parsed key document: does vdf.loads succeed, and the items of "depots"
DepotEntry(id, hasKey, key) == [id |-> id, hasKey |-> hasKey, key |-> key]

DocTwo   == [parses |-> TRUE,
             depots |-> << DepotEntry("100", TRUE, "AAA"), DepotEntry("101", TRUE, "BBB") >>]
DocOne   == [parses |-> TRUE, depots |-> << DepotEntry("100", TRUE, "AAA") >>]
DocEmpty == [parses |-> TRUE, depots |-> << >>]
DocBad   == [parses |-> FALSE, depots |-> << >>]

\* every file answers 200 on every mirror
AllServed == [p \in Paths |-> "200"]

NoDocs == [p \in Paths |-> DocEmpty]

Blob(p) == [path |-> p, type |-> "blob"]

\* what the origin holds for one repository: the answer of the branch API,
\* of the tree API, the tree, the answer of the mirrors per file, the parsed
\* content of each .vdf file, and the answer of the archive API
Hosting(branch, treeSt, tree, resp, docs, zip) ==
    [branch |-> branch, treeSt |-> treeSt, tree |-> tree, resp |-> resp,
     docs |-> docs, zip |-> zip]

\* the branch of the AppID does not exist
HostNone == Hosting("404", "404", << >>, AllServed, NoDocs, "404")

\* key.vdf without keys, one manifest
HostKeyEmpty ==
    Hosting("200", "200", << Blob("key.vdf"), Blob("100_555.manifest") >>,
            AllServed, NoDocs, "200")

\* config.vdf without keys, one manifest
HostConfigEmpty ==
    Hosting("200", "200", << Blob("config.vdf"), Blob("102_777.manifest") >>,
            AllServed, NoDocs, "200")

\* key.vdf with two keys, one manifest
HostKeyTwo ==
    Hosting("200", "200", << Blob("100_555.manifest"), Blob("key.vdf") >>,
            AllServed, [NoDocs EXCEPT !["key.vdf"] = DocTwo], "200")

\* config.vdf with two keys, one manifest, one other file
HostConfigTwo ==
    Hosting("200", "200",
            << Blob("config.vdf"), Blob("readme.txt"), Blob("102_777.manifest") >>,
            AllServed, [NoDocs EXCEPT !["config.vdf"] = DocTwo], "200")

\* Sub/Key.vdf malformed and config.vdf with one key; the manifest is late
\* at the mirrors and no mirror has readme.txt
HostFlaky ==
    Hosting("200", "200",
            << Blob("config.vdf"), Blob("Sub/Key.vdf"), [path |-> "Sub", type |-> "tree"],
               Blob("readme.txt"), Blob("100_555.manifest") >>,
            [AllServed EXCEPT !["100_555.manifest"] = "late", !["readme.txt"] = "404"],
            [NoDocs EXCEPT !["Sub/Key.vdf"] = DocBad, !["config.vdf"] = DocOne], "200")

\* config.vdf with one key, key.vdf with two keys (the key of config.vdf is
\* one of them), one manifest, one other file
HostBoth ==
    Hosting("200", "200",
            << Blob("config.vdf"), Blob("key.vdf"), Blob("100_555.manifest"),
               Blob("readme.txt") >>,
            AllServed,
            [NoDocs EXCEPT !["config.vdf"] = DocOne, !["key.vdf"] = DocTwo], "200")

\* the same tree, but no mirror has key.vdf and readme.txt is late at the
\* mirrors
HostBothKeyLost ==
    Hosting("200", "200",
            << Blob("config.vdf"), Blob("key.vdf"), Blob("100_555.manifest"),
               Blob("readme.txt") >>,
            [AllServed EXCEPT !["key.vdf"] = "404", !["readme.txt"] = "late"],
            [NoDocs EXCEPT !["config.vdf"] = DocOne, !["key.vdf"] = DocTwo], "200")

\* the tree API fails
HostNoTree == Hosting("200", "500", << >>, AllServed, NoDocs, "500")

\* self.repos values (src/app.py:423-441) paired with what the origin holds
RepoChoices ==
    { [type |-> "Decrypted", host |-> HostNone],
      [type |-> "Decrypted", host |-> HostKeyEmpty],
      [type |-> "Encrypted", host |-> HostConfigEmpty],
      [type |-> "Decrypted", host |-> HostKeyTwo],
      [type |-> "Encrypted", host |-> HostConfigTwo],
      [type |-> "Decrypted", host |-> HostFlaky],
      [type |-> "Encrypted", host |-> HostNoTree],
      [type |-> "Branch", host |-> HostKeyTwo],
      [type |-> "Branch", host |-> HostNone] }

AppIds == {"10", "20"}

\* the batch the Download button starts: unique AppIDs, in input order
Batches == { << "10", "20" >> }

VARIABLES
    cancel_search,   \* self.cancel_search, shared with the GUI thread
    netMode,         \* "free": every mirror request may get any answer
    inflight,        \* the request of the download thread that is in flight
    getPc,           \* position inside get()
    attempt,         \* get(): outer cycle index (0-based)
    urlIdx,          \* get(): index into url_list (1-based)
    retry_num,       \* get(): retry index on the current URL (0-based)
    getArg,          \* get(): <<repo, path>> of the running call
    getResult,       \* get(): returned value (None or the bytes read)
    getWhy,          \* history: which return statement produced getResult
    reqCount,        \* history: requests sent by the running get() call
    lastReq,         \* history: <<attempt, urlIdx, retry_num>> of the last request
    got404,          \* history: <<attempt, urlIdx>> pairs that answered 404
    lastEv,          \* history: last event of the running get() call
    repos,           \* self.repos of the selected repositories, in order
    origin,          \* what the origin holds for each selected repository
    strict_validation_var,
    osFault,         \* the call of zip_outcome that raises OSError ("none": none)
    pc,              \* position of the download thread
    appids_to_download,
    bi,              \* run_batch_download: index of the running AppID
    ri,              \* _perform_download_operations: index of the repository
    fi,              \* index of the file loop that is running
    overall_collected_depots,
    repo_specific_collected_depots,
    files_downloaded_or_processed_this_repo,
    key_file_found_and_processed_successfully,
    outcome,         \* value returned by _perform_download_operations
    disk,            \* per AppID: processing directory and output archives
    presses,         \* times the Download button was pressed
    window,          \* "open" until on_closing destroys it
    search_thread,   \* self.search_thread: "none" or "alive"
    guiPc,           \* position of the GUI thread inside search_game
    searches,        \* times the Search button was pressed
    download_button, \* state of the Download button: "normal" or "disabled"
    restores,        \* times the callback that re-enables the button has run
    extraBatches,    \* batch threads started while another one was running
    cancelRequested, \* history: cancel_search was set since the batch started
    reqRepos,        \* history: repositories that got a request in this run
    succeededAt,     \* history: repository judged successful in this run
    cancelledDuring, \* history: kind of the request in flight when cancelled
    cacheHits,       \* history: <<repository, source, path>> of local files used
    written,         \* history: <<repository, path>> of the files written
    parsed,          \* history: <<repository, pair>> of the keys parsed, in order
    modeAtSelection, \* history: the mode the last content selection read
    returnedCancelled, \* history: cancel_search was set when the run returned
    luaArgs,         \* arguments of the last parse_vdf_to_lua call made on its own
    lua_lines,       \* the lines that call returned
    final_zip_path   \* run_batch_download: what the last zip_outcome call returned

getVars  == << getPc, attempt, urlIdx, retry_num, getArg, getResult >>
histVars == << getWhy, reqCount, lastReq, got404, lastEv >>
envVars  == << repos, origin, strict_validation_var, osFault >>
luaVars  == << luaArgs, lua_lines, final_zip_path >>
thrVars  == << pc, appids_to_download, bi, ri, fi, overall_collected_depots,
               repo_specific_collected_depots,
               files_downloaded_or_processed_this_repo,
               key_file_found_and_processed_successfully, outcome >>
guiVars  == << presses, window, search_thread, guiPc, searches, cancelRequested,
              download_button, restores, extraBatches >>
runHist  == << reqRepos, succeededAt, cancelledDuring, cacheHits, written, parsed,
              modeAtSelection >>
vars == << cancel_search, netMode, inflight, getVars, histVars, envVars, luaVars, thrVars,
           disk, guiVars, runHist, returnedCancelled >>

\* what a step of get() leaves alone outside get()
getFrame == << cancel_search, netMode, envVars, luaVars, thrVars, disk, guiVars,
               succeededAt, cancelledDuring, cacheHits, written, parsed,
               modeAtSelection, returnedCancelled >>

(***************************************************************************)
(* get(sha, path, repo): src/app.py:1735-1838.                             *)
(***************************************************************************)
\* bytes read from the response of mirror m for file p of repository r
Bytes(r, p, m) == [repo |-> r, path |-> p, mirror |-> m]

\* the answer of mirror m for a file whose state at the mirrors is st:
\* "200" is served by every mirror, "404" by none, and "late" has reached
\* the mirrors from the third on (the first fails, the second has no copy)
MirrorAnswer(st, m) ==
    IF st = "late"
      THEN (IF m = 1 THEN "500" ELSE IF m = 2 THEN "404" ELSE "200")
      ELSE st

\* the answers the network may give to the request in flight: any answer,
\* or the answer the origin's state fixes for this file
Responses ==
    IF netMode = "free" THEN Statuses
    ELSE { MirrorAnswer(origin[getArg[1]].resp[getArg[2]], urlIdx) }

\* entry of get(): the loop variables before the first iteration
GetBegin(r, p) ==
    /\ getPc' = "send"
    /\ attempt' = 0
    /\ urlIdx' = 1
    /\ retry_num' = 0
    /\ getArg' = << r, p >>
    /\ getResult' = None
    /\ getWhy' = "running"
    /\ reqCount' = 0
    /\ lastReq' = << >>
    /\ got404' = {}
    /\ lastEv' = "begin"

\* a return statement of get()
GetReturn(value, why) ==
    /\ getPc' = "done"
    /\ getResult' = value
    /\ getWhy' = why
    /\ lastEv' = "return"
    /\ inflight' = NoReq
    /\ UNCHANGED << attempt, urlIdx, retry_num, getArg >>

\* (variant: the break leaves the for-url loop instead of the retry loop)
AdvanceUrlBreakCycle ==
    /\ getPc' = "cycle_end"
    /\ retry_num' = 0
    /\ UNCHANGED << attempt, urlIdx >>

\* the for-url loop moves past the current URL: next URL, or end of the cycle
AdvanceUrl ==
    /\ IF urlIdx < NumMirrors
         THEN /\ getPc' = "send"
              /\ urlIdx' = urlIdx + 1
         ELSE /\ getPc' = "cycle_end"
              /\ urlIdx' = urlIdx
    /\ retry_num' = 0
    /\ UNCHANGED attempt

\* lines 1748-1783: the checks of cancel_search in the three loop headers,
\* then session.get(url)
GetSend ==
    /\ getPc = "send"
    /\ IF cancel_search
         THEN /\ GetReturn(None, "cancelled")
              /\ UNCHANGED << reqCount, lastReq, got404, reqRepos >>
         ELSE /\ getPc' = "inflight"
              /\ inflight' = [kind |-> "file", repo |-> getArg[1], mirror |-> urlIdx]
              /\ reqCount' = reqCount + 1
              /\ lastReq' = << attempt, urlIdx, retry_num >>
              /\ lastEv' = "request"
              /\ reqRepos' = reqRepos \cup { getArg[1] }
              /\ UNCHANGED << attempt, urlIdx, retry_num, getArg, getResult,
                              getWhy, got404 >>
    /\ UNCHANGED getFrame

\* line 1784-1788: status 200, the body is read and returned
GetRecvOk ==
    /\ getPc = "inflight"
    /\ "200" \in Responses
    /\ GetReturn(Bytes(getArg[1], getArg[2], urlIdx), "ok")
    /\ UNCHANGED << reqCount, lastReq, got404 >>
    /\ UNCHANGED << getFrame, reqRepos >>

\* (variant: a 404 is handled like any other non-200 status, without break)
GetRecv404NoBreak ==
    /\ getPc = "inflight"
    /\ "404" \in Responses
    /\ inflight' = NoReq
    /\ got404' = got404 \cup { << attempt, urlIdx >> }
    /\ lastEv' = "404"
    /\ IF retry_num < max_retries_per_url
         THEN /\ getPc' = "retry_sleep"
              /\ UNCHANGED << attempt, urlIdx, retry_num >>
         ELSE AdvanceUrl
    /\ UNCHANGED << getArg, getResult, getWhy, reqCount, lastReq >>
    /\ UNCHANGED << getFrame, reqRepos >>

\* lines 1789-1793: status 404, break out of the retry loop of this URL
GetRecv404 ==
    /\ getPc = "inflight"
    /\ "404" \in Responses
    /\ AdvanceUrl
    /\ inflight' = NoReq
    /\ got404' = got404 \cup { << attempt, urlIdx >> }
    /\ lastEv' = "404"
    /\ UNCHANGED << getArg, getResult, getWhy, reqCount, lastReq >>
    /\ UNCHANGED << getFrame, reqRepos >>

\* lines 1794-1815: another status or a transport error, then the check of
\* cancel_search and the decision to sleep before the next try on this URL
GetRecvTransient ==
    /\ getPc = "inflight"
    /\ Responses \ {"200", "404"} # {}
    /\ IF cancel_search
         THEN GetReturn(None, "cancelled")
         ELSE /\ inflight' = NoReq
              /\ lastEv' = "transient"
              /\ IF retry_num < max_retries_per_url
                   THEN /\ getPc' = "retry_sleep"
                        /\ UNCHANGED << attempt, urlIdx, retry_num >>
                   ELSE AdvanceUrl
              /\ UNCHANGED << getArg, getResult, getWhy >>
    /\ UNCHANGED << reqCount, lastReq, got404 >>
    /\ UNCHANGED << getFrame, reqRepos >>

\* line 1815: asyncio.sleep(0.5) is over, next iteration of the retry loop
GetRetrySleep ==
    /\ getPc = "retry_sleep"
    /\ getPc' = "send"
    /\ retry_num' = retry_num + 1
    /\ lastEv' = "retry_delay"
    /\ UNCHANGED << attempt, urlIdx, getArg, getResult >>
    /\ UNCHANGED << getWhy, reqCount, lastReq, got404 >>
    /\ UNCHANGED << getFrame, reqRepos, inflight >>

\* lines 1817-1838: end of the for-url loop
GetCycleEnd ==
    /\ getPc = "cycle_end"
    /\ IF cancel_search
         THEN GetReturn(None, "cancelled")
         ELSE IF attempt < overall_attempts - 1
                THEN /\ getPc' = "cycle_sleep"
                     /\ lastEv' = "cycle_end"
                     /\ UNCHANGED << attempt, urlIdx, retry_num, getArg,
                                     getResult, getWhy, inflight >>
                ELSE GetReturn(None, "exhausted")
    /\ UNCHANGED << reqCount, lastReq, got404 >>
    /\ UNCHANGED << getFrame, reqRepos >>

\* line 1830: asyncio.sleep(1) is over, next outer cycle
GetCycleSleep ==
    /\ getPc = "cycle_sleep"
    /\ getPc' = "send"
    /\ attempt' = attempt + 1
    /\ urlIdx' = 1
    /\ retry_num' = 0
    /\ lastEv' = "cycle_delay"
    /\ UNCHANGED << getArg, getResult >>
    /\ UNCHANGED << getWhy, reqCount, lastReq, got404 >>
    /\ UNCHANGED << getFrame, reqRepos, inflight >>

GetStep ==
    \/ GetSend
    \/ GetRecvOk
    \/ GetRecv404
    \/ GetRecvTransient
    \/ GetRetrySleep
    \/ GetCycleEnd
    \/ GetCycleSleep

(***************************************************************************)
(* Key extraction: get_manifest, src/app.py:1903-1948.                     *)
(***************************************************************************)
InSeq(x, list) == \E i \in 1..Len(list) : list[i] = x

\* (variant: the keys of the last file replace the list)
AppendReplace(list, items) == items

\* (variant: the membership test is left out)
AppendAll(list, items) == list \o items

\* "if dk not in list: list.append(dk)" over the items, in order
RECURSIVE AppendNew(_, _)
AppendNew(list, items) ==
    IF items = << >> THEN list
    ELSE AppendNew(IF InSeq(Head(items), list) THEN list ELSE Append(list, Head(items)),
                   Tail(items))

\* the (depot id, key) pairs of the entries that carry a DecryptionKey
RECURSIVE KeyTuples(_)
KeyTuples(entries) ==
    IF entries = << >> THEN << >>
    ELSE (IF Head(entries).hasKey
            THEN << << Head(entries).id, Head(entries).key >> >>
            ELSE << >>) \o KeyTuples(Tail(entries))

\* keys collected from one file: nothing on a parse failure
ExtractKeys(doc) ==
    IF doc.parses THEN AppendNew(<< >>, KeyTuples(doc.depots)) ELSE << >>

(***************************************************************************)
(* Disk: per AppID the processing directory "_<name> - <appid>_temp", the  *)
(* script "<appid>.lua" in it, and the archives "<name> - <appid>.zip" and *)
(* "<name> - <appid> - encrypted.zip" (src/app.py:2105, 2160, 2628).       *)
(***************************************************************************)
NoFile == [kind |-> "none", repo |-> 0, entries |-> {}, lua |-> << >>]

NoFiles == [p \in Paths |-> 0]

EmptyDisk ==
    [a \in AppIds |->
        [dir |-> FALSE, files |-> NoFiles, lua |-> << >>, zip |-> NoFile, zipEnc |-> NoFile]]

\* os.path.exists(os.path.join(processing_dir, path))
Exists(a, p) == disk[a].files[p] # 0

\* the AppID of the running _perform_download_operations call
app_id == appids_to_download[bi]

NoOutcome == [depots |-> << >>, path |-> "none", branch |-> FALSE]

(***************************************************************************)
(* Strict mode: order of the key files, src/app.py:2298-2319.              *)
(***************************************************************************)
\* paths of the blobs named key.vdf or config.vdf (keys of key_file_paths_in_tree)
KeyFilePaths(tree) ==
    { tree[i].path : i \in { j \in 1..Len(tree) :
          tree[j].type = "blob" /\ BaseLower(tree[j].path) \in {"key.vdf", "config.vdf"} } }

\* (variant: config.vdf is preferred)
KeyFileBeforeConfigFirst(p, q) ==
    \/ BaseLower(p) # "key.vdf" /\ BaseLower(q) = "key.vdf"
    \/ (BaseLower(p) = "key.vdf") = (BaseLower(q) = "key.vdf") /\ PathRank(p) < PathRank(q)

\* sort key (basename != "key.vdf", path)
KeyFileBefore(p, q) ==
    \/ BaseLower(p) = "key.vdf" /\ BaseLower(q) # "key.vdf"
    \/ (BaseLower(p) = "key.vdf") = (BaseLower(q) = "key.vdf") /\ PathRank(p) < PathRank(q)

RECURSIVE SortKeyFiles(_)
SortKeyFiles(S) ==
    IF S = {} THEN << >>
    ELSE LET first == CHOOSE p \in S : \A q \in S \ {p} : KeyFileBefore(p, q)
         IN  << first >> \o SortKeyFiles(S \ {first})

\* what the origin answers for repository r and the running AppID: the
\* repositories hold a branch for AppID "10" only
HostOf(r) == IF app_id = "10" THEN origin[r] ELSE HostNone

tree_items == HostOf(ri).tree

prioritized_key_files == SortKeyFiles(KeyFilePaths(tree_items))

\* (variant: the manifest loop passes over every entry)
NextManifestNone(tree, i) == Len(tree) + 1

\* the first index from i on whose entry the strict manifest loop fetches
RECURSIVE NextManifest(_, _)
NextManifest(tree, i) ==
    IF i > Len(tree) THEN i
    ELSE IF tree[i].type = "blob" /\ IsManifest(tree[i].path) THEN i
    ELSE NextManifest(tree, i + 1)

\* the first index from i on whose entry the non-strict loop fetches
RECURSIVE NextBlob(_, _)
NextBlob(tree, i) ==
    IF i > Len(tree) THEN i
    ELSE IF tree[i].type = "blob" THEN i
    ELSE NextBlob(tree, i + 1)

(***************************************************************************)
(* The checks of cancel_search at the heads of the loops.                  *)
(***************************************************************************)
\* (variant: a check that is left out)
Never == FALSE

\* run_batch_download, line 1592
BatchCancelled == cancel_search

\* _perform_download_operations, line 2080
RepoLoopCancelled == cancel_search

\* line 2119, after the archive fetch
ZipCancelled == cancel_search

\* lines 2321, 2361, 2373, 2408, 2436: the file loops
FileLoopCancelled == cancel_search

\* get_manifest, lines 1884 and 1893
ManifestCancelled == cancel_search

(***************************************************************************)
(* _perform_download_operations: src/app.py:2046-2523.                     *)
(***************************************************************************)
\* a return statement: back in run_batch_download at line 1615
ReturnRun(depots, path, branch) ==
    /\ outcome' = [depots |-> depots, path |-> path, branch |-> branch]
    /\ pc' = "post_run"

\* history: the value of cancel_search at the return of the run
RecordReturn ==
    returnedCancelled' = IF pc' = "post_run" THEN cancel_search ELSE returnedCancelled

GetIdle ==
    /\ getPc' = "idle"
    /\ attempt' = 0
    /\ urlIdx' = 1
    /\ retry_num' = 0
    /\ getArg' = << 0, "" >>
    /\ getResult' = None
    /\ getWhy' = "idle"
    /\ reqCount' = 0
    /\ lastReq' = << >>
    /\ got404' = {}
    /\ lastEv' = "idle"

Request(kind, r) == [kind |-> kind, repo |-> r, mirror |-> 0]

\* "continue": the next repository of the for loop
NextRepo ==
    /\ ri' = ri + 1
    /\ pc' = "repo_loop"

\* (variant: the output path is not looked at)
BranchZipExistsNever == FALSE

\* line 2108: os.path.exists(final_branch_zip_path)
BranchZipExists == disk[app_id].zip # NoFile

\* (variant: a run without a successful attempt hands back the directory)
NoOutputPathDir == "dir"

\* lines 2087, 2515 and 2523: "return ..., None, False"
NoOutputPath == "none"

\* lines 2079-2200: head of the repository loop up to the first request
RepoNext ==
    /\ pc = "repo_loop"
    /\ IF ri > Len(repos) \/ RepoLoopCancelled
         THEN \* lines 2087 and 2511-2523
              /\ ReturnRun(overall_collected_depots, NoOutputPath, FALSE)
              /\ UNCHANGED << ri, disk, inflight, reqRepos >>
         ELSE IF repos[ri] = "Branch"
           THEN IF BranchZipExists
                  THEN /\ ReturnRun(<< >>, "zip", TRUE)
                       /\ UNCHANGED << ri, disk, inflight, reqRepos >>
                  ELSE /\ pc' = "zip_wait"
                       /\ inflight' = Request("zip", ri)
                       /\ reqRepos' = reqRepos \cup {ri}
                       /\ UNCHANGED << ri, disk, outcome >>
           ELSE \* os.makedirs(processing_dir_non_branch), then the branch API
                /\ disk' = [disk EXCEPT ![app_id].dir = TRUE]
                /\ pc' = "branch_wait"
                /\ inflight' = Request("branch", ri)
                /\ reqRepos' = reqRepos \cup {ri}
                /\ UNCHANGED << ri, outcome >>
    \* line 2189; the list is local to the attempt and dead outside of it
    /\ repo_specific_collected_depots' = << >>
    /\ UNCHANGED << appids_to_download, bi, fi, overall_collected_depots,
                    files_downloaded_or_processed_this_repo,
                    key_file_found_and_processed_successfully >>
    /\ UNCHANGED << cancel_search, netMode, getVars, histVars, envVars, luaVars, guiVars,
                    succeededAt, cancelledDuring, cacheHits, written, parsed,
                    modeAtSelection >>
    /\ RecordReturn

\* (variant: the answer of the archive API always counts as content)
ZipContentAlways == TRUE

\* line 2127: "if zip_content:"
ZipContent == HostOf(ri).zip = "200"

\* lines 2116-2158: the archive request has ended
ZipRecv ==
    /\ pc = "zip_wait"
    /\ inflight' = NoReq
    /\ IF ZipCancelled
         THEN /\ ReturnRun(<< >>, "none", FALSE)
              /\ UNCHANGED << ri, disk >>
         ELSE IF ZipContent
           THEN /\ disk' = [disk EXCEPT ![app_id].zip =
                              [kind |-> "branch", repo |-> ri, entries |-> {}, lua |-> << >>]]
                /\ ReturnRun(<< >>, "zip", TRUE)
                /\ UNCHANGED ri
           ELSE /\ NextRepo
                /\ UNCHANGED << disk, outcome >>
    /\ UNCHANGED << appids_to_download, bi, fi, overall_collected_depots,
                    repo_specific_collected_depots,
                    files_downloaded_or_processed_this_repo,
                    key_file_found_and_processed_successfully >>
    /\ UNCHANGED << cancel_search, netMode, getVars, histVars, envVars, luaVars, guiVars, runHist >>
    /\ RecordReturn

\* (variant: the status of the branch answer is not looked at)
BranchFoundAlways == TRUE

\* line 2202: "if r_branch.status != 200: ... continue"
BranchFound == HostOf(ri).branch = "200"

\* lines 2202-2245: the branch request has ended; the tree request follows
BranchRecv ==
    /\ pc = "branch_wait"
    /\ IF BranchFound
         THEN /\ pc' = "tree_wait"
              /\ inflight' = Request("tree", ri)
              /\ UNCHANGED ri
         ELSE /\ NextRepo
              /\ inflight' = NoReq
    /\ UNCHANGED << appids_to_download, bi, fi, overall_collected_depots,
                    repo_specific_collected_depots,
                    files_downloaded_or_processed_this_repo,
                    key_file_found_and_processed_successfully, outcome >>
    /\ UNCHANGED << cancel_search, netMode, getVars, histVars, envVars, luaVars, guiVars,
                    disk, runHist >>
    /\ RecordReturn

\* lines 2246-2298 and 2396-2406: the tree request has ended
TreeRecv ==
    /\ pc = "tree_wait"
    /\ inflight' = NoReq
    /\ IF HostOf(ri).treeSt = "200" /\ tree_items # << >>
         THEN /\ files_downloaded_or_processed_this_repo' = FALSE
              /\ key_file_found_and_processed_successfully' = FALSE
              /\ fi' = 1
              /\ pc' = IF strict_validation_var THEN "key_loop" ELSE "perm_loop"
              /\ modeAtSelection' = IF strict_validation_var THEN "strict" ELSE "permissive"
              /\ UNCHANGED ri
         ELSE /\ NextRepo
              /\ UNCHANGED << fi, files_downloaded_or_processed_this_repo,
                              key_file_found_and_processed_successfully, modeAtSelection >>
    /\ UNCHANGED << appids_to_download, bi, overall_collected_depots,
                    repo_specific_collected_depots, outcome >>
    /\ UNCHANGED << cancel_search, netMode, getVars, histVars, envVars, luaVars, guiVars,
                    disk, reqRepos, succeededAt, cancelledDuring, cacheHits, written, parsed >>
    /\ RecordReturn

(***************************************************************************)
(* get_manifest: src/app.py:1840-1971, with the statements of the calling  *)
(* loop that follow the call.                                              *)
(***************************************************************************)
\* the path the running file loop hands to get_manifest
CurrentPath ==
    IF pc \in {"key_loop", "key_get"} THEN prioritized_key_files[fi]
    ELSE tree_items[fi].path

\* (variant: an existing file is never used)
UsesLocalNever(p) == FALSE

\* lines 1852-1882: an existing .manifest or .vdf file is not downloaded
UsesLocal(p) == Exists(app_id, p) /\ (IsManifest(p) \/ IsVdf(p))

\* parsed content of the bytes that repository src serves for path p
DocOf(src, p) == origin[src].docs[p]

\* lines 2445-2455
RepoConsideredSuccessful(strict, depots, touched) ==
    IF strict THEN depots # << >> /\ touched ELSE touched

\* (variant: the return is missing)
ShortCircuitsNever(success) == FALSE

\* (variant: the attempt returns the directory whatever the judgement)
ShortCircuitsAlways(success) == TRUE

\* lines 2457-2475: a successful attempt returns from the function
ShortCircuits(success) == success

\* (variant: the key loop never ends early)
BreaksKeyLoopNever(p) == FALSE

\* lines 2359-2360: "if key_short_name == 'key.vdf': break"
BreaksKeyLoop(p) == BaseLower(p) = "key.vdf"

\* the keys one call of get_manifest returned, tagged with the repository
Seen(keys) == [i \in 1..Len(keys) |-> << ri, keys[i] >>]

\* the statements of the calling loop after "await self.get_manifest(...)"
\* returned keys with the files of the directory being files
AfterGetManifest(keys, files) ==
    LET p == CurrentPath IN
    CASE pc \in {"key_loop", "key_get"} ->
           \* lines 2341-2360
           /\ pc' = "key_loop"
           /\ IF keys # << >>
                THEN /\ repo_specific_collected_depots' =
                            AppendNew(repo_specific_collected_depots, keys)
                     /\ files_downloaded_or_processed_this_repo' = TRUE
                     /\ key_file_found_and_processed_successfully' = TRUE
                     /\ fi' = IF BreaksKeyLoop(p)
                                THEN Len(prioritized_key_files) + 1
                                ELSE fi + 1
                ELSE /\ fi' = fi + 1
                     /\ UNCHANGED << repo_specific_collected_depots,
                                     files_downloaded_or_processed_this_repo,
                                     key_file_found_and_processed_successfully >>
           /\ parsed' = parsed \o Seen(keys)
      [] pc \in {"man_loop", "man_get"} ->
           \* lines 2387-2394
           /\ pc' = "man_loop"
           /\ fi' = fi + 1
           /\ files_downloaded_or_processed_this_repo' =
                 (files_downloaded_or_processed_this_repo \/ files[p] # 0)
           /\ UNCHANGED << repo_specific_collected_depots,
                           key_file_found_and_processed_successfully, parsed >>
      [] pc \in {"perm_loop", "perm_get"} ->
           \* lines 2418-2434
           /\ pc' = "perm_loop"
           /\ fi' = fi + 1
           /\ repo_specific_collected_depots' =
                 AppendNew(repo_specific_collected_depots, keys)
           /\ files_downloaded_or_processed_this_repo' =
                 (files_downloaded_or_processed_this_repo \/ files[p] # 0)
           /\ parsed' = parsed \o Seen(keys)
           /\ UNCHANGED key_file_found_and_processed_successfully

\* lines 2436-2485: after the file loops, judge the attempt
Judge ==
    LET success == RepoConsideredSuccessful(strict_validation_var,
                       repo_specific_collected_depots,
                       files_downloaded_or_processed_this_repo)
    IN  /\ succeededAt' = IF success THEN ri ELSE succeededAt
        /\ IF ShortCircuits(success)
             THEN /\ overall_collected_depots' =
                        AppendNew(overall_collected_depots, repo_specific_collected_depots)
                  /\ ReturnRun(overall_collected_depots', "dir", FALSE)
                  /\ UNCHANGED ri
             ELSE /\ NextRepo
                  /\ UNCHANGED << overall_collected_depots, outcome >>

\* (variant: a cancelled run hands back the keys of the attempt it broke off)
CancelledDepotsOfAttempt == repo_specific_collected_depots

\* line 2515: "return overall_collected_depots, None, False"
CancelledDepots == overall_collected_depots

\* the loop frame of one step of a file loop
FileLoopFrame ==
    /\ UNCHANGED << appids_to_download, bi >>
    /\ UNCHANGED << cancel_search, netMode, envVars, luaVars, guiVars, cancelledDuring >>

\* heads of the three file loops (lines 2320, 2372, 2407) and entry of
\* get_manifest up to "await self.get(...)" (lines 1843-1891)
FileNext ==
    /\ pc \in {"key_loop", "man_loop", "perm_loop"}
    /\ FileLoopFrame
    /\ inflight' = NoReq
    /\ IF FileLoopCancelled
         THEN \* break out of the repository loop, then lines 2511-2515
              /\ ReturnRun(CancelledDepots, "none", FALSE)
              /\ UNCHANGED << ri, fi, overall_collected_depots,
                              repo_specific_collected_depots,
                              files_downloaded_or_processed_this_repo,
                              key_file_found_and_processed_successfully >>
              /\ UNCHANGED << disk, getVars, histVars, runHist >>
         ELSE IF pc = "key_loop" /\ fi > Len(prioritized_key_files)
           THEN \* the key files are done: the manifest loop starts
                /\ pc' = "man_loop"
                /\ fi' = NextManifest(tree_items, 1)
                /\ UNCHANGED << ri, overall_collected_depots,
                                repo_specific_collected_depots,
                                files_downloaded_or_processed_this_repo,
                                key_file_found_and_processed_successfully, outcome >>
                /\ UNCHANGED << disk, getVars, histVars, runHist >>
         ELSE IF pc = "man_loop" /\ NextManifest(tree_items, fi) # fi
           THEN /\ fi' = NextManifest(tree_items, fi)
                /\ UNCHANGED << pc, ri, overall_collected_depots,
                                repo_specific_collected_depots,
                                files_downloaded_or_processed_this_repo,
                                key_file_found_and_processed_successfully, outcome >>
                /\ UNCHANGED << disk, getVars, histVars, runHist >>
         ELSE IF pc = "perm_loop" /\ NextBlob(tree_items, fi) # fi
           THEN /\ fi' = NextBlob(tree_items, fi)
                /\ UNCHANGED << pc, ri, overall_collected_depots,
                                repo_specific_collected_depots,
                                files_downloaded_or_processed_this_repo,
                                key_file_found_and_processed_successfully, outcome >>
                /\ UNCHANGED << disk, getVars, histVars, runHist >>
         ELSE IF fi > Len(tree_items)
           THEN /\ Judge
                /\ UNCHANGED << fi, repo_specific_collected_depots,
                                files_downloaded_or_processed_this_repo,
                                key_file_found_and_processed_successfully >>
                /\ UNCHANGED << disk, getVars, histVars, reqRepos, cancelledDuring,
                                cacheHits, written, parsed, modeAtSelection >>
         ELSE IF UsesLocal(CurrentPath)
           THEN \* the local file is used: nothing is fetched or written
                /\ AfterGetManifest(
                      IF IsVdf(CurrentPath)
                        THEN ExtractKeys(DocOf(disk[app_id].files[CurrentPath], CurrentPath))
                        ELSE << >>,
                      disk[app_id].files)
                /\ cacheHits' = cacheHits \cup
                      { << ri, disk[app_id].files[CurrentPath], CurrentPath >> }
                /\ UNCHANGED << ri, overall_collected_depots, outcome >>
                /\ UNCHANGED << disk, getVars, histVars, reqRepos, succeededAt, written,
                                modeAtSelection >>
         ELSE \* "await self.get(sha, path, repo)"
              /\ pc' = CASE pc = "key_loop" -> "key_get"
                         [] pc = "man_loop" -> "man_get"
                         [] pc = "perm_loop" -> "perm_get"
              /\ GetBegin(ri, CurrentPath)
              /\ UNCHANGED << ri, fi, overall_collected_depots,
                              repo_specific_collected_depots,
                              files_downloaded_or_processed_this_repo,
                              key_file_found_and_processed_successfully, outcome >>
              /\ UNCHANGED << disk, runHist >>
    /\ RecordReturn

\* get() has returned: lines 1893-1971 of get_manifest, then the calling loop
FileDone ==
    /\ pc \in {"key_get", "man_get", "perm_get"}
    /\ getPc = "done"
    /\ FileLoopFrame
    /\ GetIdle
    /\ UNCHANGED << inflight, ri, overall_collected_depots, outcome >>
    /\ UNCHANGED << reqRepos, succeededAt, cancelledDuring, cacheHits, modeAtSelection >>
    /\ IF ManifestCancelled \/ getResult = None
         THEN /\ AfterGetManifest(<< >>, disk[app_id].files)
              /\ UNCHANGED << disk, written >>
         ELSE LET p == CurrentPath
                  files == [disk[app_id].files EXCEPT ![p] = getResult.repo]
              IN  /\ disk' = [disk EXCEPT ![app_id].files = files]
                  /\ written' = written \cup { << ri, p >> }
                  /\ AfterGetManifest(
                        IF IsVdf(p) THEN ExtractKeys(DocOf(getResult.repo, p)) ELSE << >>,
                        files)
    /\ RecordReturn

(***************************************************************************)
(* parse_vdf_to_lua: src/app.py:2525-2601.                                 *)
(***************************************************************************)
\* "<depot>_<gid>.manifest" split at the first "_": depot prefix, whether it
\* is all digits, its integer value (0 when not), the GID and the position
\* of the GID in Python's string order
ManifestName(p) ==
    CASE p = "100_555.manifest" ->
           [depot |-> "100", digits |-> TRUE, depotInt |-> 100, gid |-> "555", gidRank |-> 3]
      [] p = "102_777.manifest" ->
           [depot |-> "102", digits |-> TRUE, depotInt |-> 102, gid |-> "777", gidRank |-> 4]
      [] p = "100_9.manifest" ->
           [depot |-> "100", digits |-> TRUE, depotInt |-> 100, gid |-> "9", gidRank |-> 5]
      [] p = "100_10.manifest" ->
           [depot |-> "100", digits |-> TRUE, depotInt |-> 100, gid |-> "10", gidRank |-> 2]
      [] p = "7_777.manifest" ->
           [depot |-> "7", digits |-> TRUE, depotInt |-> 7, gid |-> "777", gidRank |-> 4]
      [] p = "abc_1.manifest" ->
           [depot |-> "abc", digits |-> FALSE, depotInt |-> 0, gid |-> "1", gidRank |-> 1]
      [] p = "102.manifest" ->
           [depot |-> "102", digits |-> TRUE, depotInt |-> 102, gid |-> "", gidRank |-> 0]

\* sort_key_manifest: (depot_id_int, manifest_gid_val)
ManifestBefore(p, q) ==
    LET a == ManifestName(p)
        b == ManifestName(q)
    IN  \/ a.depotInt < b.depotInt
        \/ a.depotInt = b.depotInt /\ a.gidRank < b.gidRank
        \/ a.depotInt = b.depotInt /\ a.gidRank = b.gidRank /\ PathRank(p) < PathRank(q)

RECURSIVE SortManifests(_)
SortManifests(S) ==
    IF S = {} THEN << >>
    ELSE LET first == CHOOSE p \in S : \A q \in S \ {p} : ManifestBefore(p, q)
         IN  << first >> \o SortManifests(S \ {first})

\* the three directives of the script
AddApp(id) == << "addappid", id >>
AddDepotKey(id, key) == << "addappid", id, "1", key >>
SetManifestId(id, gid) == << "setManifestid", id, gid, "0" >>

RECURSIVE KeyLines(_)
KeyLines(depot_info) ==
    IF depot_info = << >> THEN << >>
    ELSE << AddDepotKey(Head(depot_info)[1], Head(depot_info)[2]) >>
         \o KeyLines(Tail(depot_info))

\* (variant: every manifest file registers its depot)
RECURSIVE ManifestLinesRegisterAll(_, _)
ManifestLinesRegisterAll(manifests, processed) ==
    IF manifests = << >> THEN << >>
    ELSE LET m == ManifestName(Head(manifests)) IN
         IF m.digits
           THEN << AddApp(m.depot) >>
                \o (IF m.gid # "" THEN << SetManifestId(m.depot, m.gid) >> ELSE << >>)
                \o ManifestLinesRegisterAll(Tail(manifests), processed)
           ELSE ManifestLinesRegisterAll(Tail(manifests), processed)

\* lines 2571-2600: the directives of the manifest files, given the depots
\* that are registered already
RECURSIVE ManifestLines(_, _)
ManifestLines(manifests, processed) ==
    IF manifests = << >> THEN << >>
    ELSE LET m == ManifestName(Head(manifests)) IN
         IF m.digits
           THEN (IF m.depot \in processed THEN << >> ELSE << AddApp(m.depot) >>)
                \o (IF m.gid # "" THEN << SetManifestId(m.depot, m.gid) >> ELSE << >>)
                \o ManifestLines(Tail(manifests), processed \cup {m.depot})
           ELSE ManifestLines(Tail(manifests), processed)

\* lines 2528-2601 for the .manifest files found by os.walk
LuaLines(depot_info, appid, all_manifest_files_in_dir) ==
    << AddApp(appid) >> \o KeyLines(depot_info)
    \o ManifestLines(SortManifests(all_manifest_files_in_dir),
                     { depot_info[i][1] : i \in 1..Len(depot_info) })

parse_vdf_to_lua(depot_info, appid, files) ==
    LuaLines(depot_info, appid, { p \in Paths : files[p] # 0 /\ IsManifest(p) })

\* no call of parse_vdf_to_lua on its own was made
NoLuaArgs == [depot_info |-> << >>, manifests |-> {}]

(***************************************************************************)
(* zip_outcome: src/app.py:2603-2718.                                      *)
(***************************************************************************)
\* (variant: the path itself is compared, without basename and lower-casing)
ExcludedFromZipExact(strict, p) == strict /\ p \in {"key.vdf", "config.vdf"}

\* lines 2661-2671: is the file left out of the archive
ExcludedFromZip(strict, p) == strict /\ BaseLower(p) \in {"key.vdf", "config.vdf"}

\* lines 2614-2617
is_encrypted_source == \E i \in 1..Len(repos) : repos[i] = "Encrypted"

\* the disk of one AppID after the script was written and the directory was
\* archived and removed; the archive remembers the repository whose
\* successful attempt it packages (history)
Packaged(d, script) ==
    LET archive ==
          [kind |-> "assembled", repo |-> succeededAt, lua |-> script,
           entries |-> { << p, d.files[p] >> : p \in { q \in Paths :
                            d.files[q] # 0 /\ ~ExcludedFromZip(strict_validation_var, q) } }]
    IN  [dir |-> FALSE, files |-> NoFiles, lua |-> << >>,
         zip |-> IF is_encrypted_source THEN d.zip ELSE archive,
         zipEnc |-> IF is_encrypted_source THEN archive ELSE d.zipEnc]

\* the calls of zip_outcome that can raise OSError
ZipFaults == {"none", "remove", "write", "rmtree"}

\* lines 2620-2630: the file at final_zip_path
ArchiveAtPath(d) == IF is_encrypted_source THEN d.zipEnc ELSE d.zip

WithArchive(d, a) ==
    [d EXCEPT !.zip = IF is_encrypted_source THEN d.zip ELSE a,
              !.zipEnc = IF is_encrypted_source THEN a ELSE d.zipEnc]

\* lines 2632-2651: os.remove of the archive that is already there raises
RemoveFails(d) == osFault = "remove" /\ ArchiveAtPath(d) # NoFile

\* lines 2652-2675 and 2703-2718: ZipFile(..., "w") or zipf.write raises
WriteFails == osFault = "write"

\* lines 2681-2702: shutil.rmtree raises, the path is returned all the same
RmtreeFails == osFault = "rmtree"

\* what a write that failed leaves at final_zip_path (its content is not read)
Truncated == [kind |-> "truncated", repo |-> 0, entries |-> {}, lua |-> << >>]

\* (variant: the directory is deleted whether or not the archive was written)
DirDeletedAlways(wrote) == TRUE

\* lines 2676-2684: shutil.rmtree comes after the "with ZipFile" block, inside
\* the same try
DirDeleted(wrote) == wrote

\* lines 1628-1657 and 2603-2718: the script is written into the directory,
\* then zip_outcome runs; the value is the disk of the AppID afterwards and
\* the returned path
zip_outcome(d, script) ==
    LET scripted == [d EXCEPT !.lua = script]
        removed  == ~RemoveFails(d)
        wrote    == removed /\ ~WriteFails
        archived == IF wrote
                      THEN WithArchive(scripted, ArchiveAtPath(Packaged(d, script)))
                      ELSE IF removed THEN WithArchive(scripted, Truncated)
                      ELSE scripted
    IN  [disk |-> IF DirDeleted(wrote) /\ ~RmtreeFails
                    THEN [archived EXCEPT !.dir = FALSE, !.files = NoFiles,
                                          !.lua = << >>]
                    ELSE archived,
         path |-> IF wrote
                    THEN (IF is_encrypted_source THEN "zipEnc" ELSE "zip")
                    ELSE "none"]

(***************************************************************************)
(* run_batch_download: src/app.py:1584-1723.                               *)
(***************************************************************************)
\* lines 1591-1614: head of the AppID loop, entry of the run of one AppID
BatchNext ==
    /\ pc = "batch_loop"
    /\ IF bi > Len(appids_to_download) \/ BatchCancelled
         THEN \* the loop ends, the thread ends (lines 1719-1723)
              /\ pc' = "idle"
              /\ UNCHANGED << ri, overall_collected_depots, runHist, returnedCancelled >>
         ELSE \* lines 2049-2077
              /\ pc' = "repo_loop"
              /\ ri' = 1
              /\ overall_collected_depots' = << >>
              /\ reqRepos' = {}
              /\ succeededAt' = 0
              /\ cancelledDuring' = "none"
              /\ cacheHits' = {}
              /\ written' = {}
              /\ parsed' = << >>
              /\ modeAtSelection' = "none"
              /\ returnedCancelled' = FALSE
    /\ UNCHANGED << appids_to_download, bi, fi, repo_specific_collected_depots,
                    files_downloaded_or_processed_this_repo,
                    key_file_found_and_processed_successfully, outcome >>
    /\ UNCHANGED << cancel_search, netMode, inflight, getVars, histVars, envVars, luaVars,
                    disk, guiVars >>

\* (variant: the source of the outcome is not looked at)
PackagesOutcomeAnySource(o) == o.path # "none" /\ disk[app_id].dir

\* lines 1623-1626: "if not source_was_branch" and the returned path is a
\* directory: the script is generated and the directory is packaged
PackagesOutcome(o) == ~o.branch /\ o.path = "dir" /\ disk[app_id].dir

\* lines 1615-1718: the run of one AppID has returned
PostRun ==
    /\ pc = "post_run"
    /\ IF BatchCancelled
         THEN \* break, the thread ends
              /\ pc' = "idle"
              /\ UNCHANGED << bi, disk, final_zip_path >>
         ELSE /\ pc' = "batch_loop"
              /\ bi' = bi + 1
              /\ IF PackagesOutcome(outcome)
                   THEN LET z == zip_outcome(disk[app_id],
                                     parse_vdf_to_lua(outcome.depots, app_id,
                                                      disk[app_id].files))
                        IN  /\ disk' = [disk EXCEPT ![app_id] = z.disk]
                            /\ final_zip_path' = z.path
                   ELSE UNCHANGED << disk, final_zip_path >>
    /\ UNCHANGED << appids_to_download, ri, fi, overall_collected_depots,
                    repo_specific_collected_depots,
                    files_downloaded_or_processed_this_repo,
                    key_file_found_and_processed_successfully, outcome >>
    /\ UNCHANGED << cancel_search, netMode, inflight, getVars, histVars, envVars,
                    luaArgs, lua_lines, guiVars, runHist, returnedCancelled >>

(***************************************************************************)
(* GUI thread.                                                             *)
(***************************************************************************)
\* download_manifest: src/app.py:1518-1582, the Download button.  The
\* handler does not look at whether a batch thread is running: only the
\* state of the button keeps it from being called.  A batch thread started
\* while another one runs is counted, its steps are not followed.
download_manifest ==
    /\ window = "open"
    /\ guiPc = "idle"
    /\ download_button = "normal"
    /\ download_button' = "disabled"
    /\ cancel_search' = FALSE
    /\ IF pc = "idle"
         THEN /\ presses < MaxDownloads
              /\ presses' = presses + 1
              /\ \E b \in Batches : appids_to_download' = b
              /\ bi' = 1
              /\ pc' = "batch_loop"
              /\ cancelRequested' = FALSE
              /\ UNCHANGED extraBatches
         ELSE /\ extraBatches < MaxExtraBatches
              /\ extraBatches' = extraBatches + 1
              /\ UNCHANGED << presses, appids_to_download, bi, pc, cancelRequested >>
    /\ UNCHANGED << ri, fi, overall_collected_depots, repo_specific_collected_depots,
                    files_downloaded_or_processed_this_repo,
                    key_file_found_and_processed_successfully, outcome >>
    /\ UNCHANGED << netMode, inflight, getVars, histVars, envVars, luaVars, disk, window, runHist >>
    /\ UNCHANGED << search_thread, guiPc, searches, restores, returnedCancelled >>

\* line 1723: the callback the ending batch thread leaves to the GUI thread,
\* "self.after(0, lambda: self.download_button.configure(state='normal'))"
button_restore ==
    /\ window = "open"
    /\ guiPc = "idle"
    /\ pc = "idle"
    /\ restores < presses
    /\ restores' = restores + 1
    /\ download_button' = "normal"
    /\ UNCHANGED << cancel_search, netMode, inflight, getVars, histVars, envVars, luaVars,
                    thrVars, disk, runHist, returnedCancelled >>
    /\ UNCHANGED << presses, window, search_thread, guiPc, searches, cancelRequested,
                    extraBatches >>

\* search_game: src/app.py:1035-1057, the Search button with more than one
\* AppID in the input field: the Download button is enabled
search_game_many ==
    /\ window = "open"
    /\ guiPc = "idle"
    /\ download_button = "disabled"
    /\ download_button' = "normal"
    /\ UNCHANGED << cancel_search, netMode, inflight, getVars, histVars, envVars, luaVars,
                    thrVars, disk, runHist, returnedCancelled >>
    /\ UNCHANGED << presses, window, search_thread, guiPc, searches, cancelRequested,
                    restores, extraBatches >>

\* on_closing: src/app.py:2720-2725
on_closing ==
    /\ window = "open"
    /\ guiPc = "idle"
    /\ window' = "destroyed"
    /\ cancel_search' = TRUE
    /\ cancelRequested' = TRUE
    /\ cancelledDuring' = IF cancelledDuring = "none" THEN inflight.kind
                          ELSE cancelledDuring
    /\ UNCHANGED << netMode, inflight, getVars, histVars, envVars, luaVars, thrVars, disk,
                    presses, reqRepos, succeededAt, cacheHits, written, parsed,
                    modeAtSelection >>
    /\ UNCHANGED << search_thread, guiPc, searches, returnedCancelled >>
    /\ UNCHANGED << download_button, restores, extraBatches >>

\* what a step of search_game or of the search thread leaves alone
searchFrame == << netMode, inflight, getVars, histVars, envVars, luaVars, thrVars, disk,
                  presses, window, runHist, returnedCancelled, restores, extraBatches >>

\* search_game: src/app.py:1035-1061, the Search button, up to the
\* cancellation of a search thread that is still alive
search_game_cancel ==
    /\ window = "open"
    /\ guiPc = "idle"
    /\ searches < MaxSearches
    /\ searches' = searches + 1
    /\ guiPc' = "search_start"
    /\ IF search_thread = "alive"
         THEN cancel_search' = TRUE /\ cancelRequested' = TRUE
         ELSE UNCHANGED << cancel_search, cancelRequested >>
    /\ UNCHANGED << search_thread, download_button >>
    /\ UNCHANGED searchFrame

\* search_game: src/app.py:1063-1068, the progress area is cleared, which
\* disables the Download button (line 1012), the flag is cleared and the
\* new search thread is started
search_game_start ==
    /\ guiPc = "search_start"
    /\ guiPc' = "idle"
    /\ download_button' = "disabled"
    /\ cancel_search' = FALSE
    /\ search_thread' = "alive"
    /\ UNCHANGED << searches, cancelRequested >>
    /\ UNCHANGED searchFrame

\* run_search: src/app.py:1070-1076, the search thread ends
run_search ==
    /\ search_thread = "alive"
    /\ search_thread' = "none"
    /\ UNCHANGED << cancel_search, guiPc, searches, cancelRequested, download_button >>
    /\ UNCHANGED searchFrame

(***************************************************************************)
(* The pipeline: the origin's state is fixed at the start and decides      *)
(* every answer.                                                           *)
(***************************************************************************)
LuaIdle ==
    /\ luaArgs = NoLuaArgs
    /\ lua_lines = << >>
    /\ final_zip_path = "none"

ThreadIdle ==
    /\ pc = "idle"
    /\ appids_to_download = << >>
    /\ bi = 1
    /\ ri = 1
    /\ fi = 1
    /\ overall_collected_depots = << >>
    /\ repo_specific_collected_depots = << >>
    /\ files_downloaded_or_processed_this_repo = FALSE
    /\ key_file_found_and_processed_successfully = FALSE
    /\ outcome = NoOutcome
    /\ presses = 0
    /\ window = "open"
    /\ search_thread = "none"
    /\ guiPc = "idle"
    /\ searches = 0
    /\ download_button = "normal"
    /\ restores = 0
    /\ extraBatches = 0
    /\ cancelRequested = FALSE
    /\ reqRepos = {}
    /\ succeededAt = 0
    /\ cancelledDuring = "none"
    /\ cacheHits = {}
    /\ written = {}
    /\ parsed = << >>
    /\ modeAtSelection = "none"
    /\ returnedCancelled = FALSE

GetIdleInit ==
    /\ inflight = NoReq
    /\ getPc = "idle"
    /\ attempt = 0
    /\ urlIdx = 1
    /\ retry_num = 0
    /\ getArg = << 0, "" >>
    /\ getResult = None
    /\ getWhy = "idle"
    /\ reqCount = 0
    /\ lastReq = << >>
    /\ got404 = {}
    /\ lastEv = "idle"

Init ==
    /\ cancel_search = FALSE
    /\ netMode = "fixed"
    /\ osFault = "none"
    /\ GetIdleInit
    /\ ThreadIdle
    /\ LuaIdle
    /\ disk = EmptyDisk
    /\ strict_validation_var \in BOOLEAN
    /\ \E n \in 1..MaxRepos : \E c \in [1..n -> RepoChoices] :
          /\ repos = [i \in 1..n |-> c[i].type]
          /\ origin = [i \in 1..n |-> c[i].host]

Next ==
    \/ download_manifest
    \/ on_closing
    \/ BatchNext
    \/ RepoNext
    \/ ZipRecv
    \/ BranchRecv
    \/ TreeRecv
    \/ FileNext
    \/ FileDone
    \/ PostRun
    \/ button_restore
    \/ GetSend
    \/ GetRecvOk
    \/ GetRecv404
    \/ GetRecvTransient
    \/ GetRetrySleep
    \/ GetCycleEnd
    \/ GetCycleSleep

Spec == Init /\ [][Next]_vars

\* the steps of the batch thread and of the coroutines it runs
BatchThreadStep ==
    \/ BatchNext
    \/ RepoNext
    \/ ZipRecv
    \/ BranchRecv
    \/ TreeRecv
    \/ FileNext
    \/ FileDone
    \/ PostRun
    \/ GetSend
    \/ GetRecvOk
    \/ GetRecv404
    \/ GetRecvTransient
    \/ GetRetrySleep
    \/ GetCycleEnd
    \/ GetCycleSleep

\* the batch thread keeps running (threading.Thread(...).start(), then
\* run_until_complete), and every request ends: with an answer, or with the
\* ClientTimeout of its session
FairRun == Spec /\ WF_vars(BatchThreadStep)

(***************************************************************************)
(* The pipeline with the Search button: search_game writes the flag that   *)
(* the download thread reads.                                              *)
(***************************************************************************)
NextSearch ==
    \/ Next
    \/ search_game_cancel
    \/ search_game_start
    \/ run_search

SpecSearch == Init /\ [][NextSearch]_vars

(***************************************************************************)
(* The pipeline with a user who presses Search with several AppIDs in the  *)
(* input field, which enables the Download button.                         *)
(***************************************************************************)
NextButton == Next \/ search_game_many

SpecButton == Init /\ [][NextButton]_vars

(***************************************************************************)
(* The pipeline with a user who clicks the "Strict Validation" checkbox:   *)
(* the checkbox is bound to strict_validation_var (src/app.py:590-600),    *)
(* which the download thread reads with .get() where it needs the mode.    *)
(***************************************************************************)
\* the click inverts the variable, then save_strict_validation_setting
\* (src/app.py:1030-1033) stores it
save_strict_validation_setting ==
    /\ window = "open"
    /\ guiPc = "idle"
    /\ strict_validation_var' = ~strict_validation_var
    /\ UNCHANGED << cancel_search, netMode, inflight, getVars, histVars, repos, origin,
                    osFault, luaVars, thrVars, disk, guiVars, runHist, returnedCancelled >>

NextToggle == Next \/ save_strict_validation_setting

SpecToggle == Init /\ [][NextToggle]_vars

(***************************************************************************)
(* The pipeline started on a processing directory that is not empty: a run *)
(* that failed or was cancelled leaves "_<name> - <appid>_temp" with the   *)
(* files it wrote (no cleanup at src/app.py:2508-2523), and the next       *)
(* session finds them.                                                     *)
(***************************************************************************)
TreeChoices ==
    { [type |-> "Decrypted", host |-> HostBoth],
      [type |-> "Decrypted", host |-> HostBothKeyLost],
      [type |-> "Encrypted", host |-> HostKeyEmpty],
      [type |-> "Branch", host |-> HostKeyTwo] }

\* the sets of files an earlier run may have left
Leftovers ==
    { {},
      {"key.vdf"},
      {"key.vdf", "100_555.manifest"},
      {"config.vdf", "key.vdf", "100_555.manifest", "readme.txt"} }

\* repository h serves every file of S
Serves(h, S) ==
    \A p \in S : /\ \E i \in 1..Len(h.tree) : h.tree[i] = Blob(p)
                 /\ h.resp[p] = "200"

\* the directory of AppID a holds the files of S, written from repository src
LeftoverDisk(a, S, src) ==
    [EmptyDisk EXCEPT ![a].dir = (S # {}),
                      ![a].files = [p \in Paths |-> IF p \in S THEN src ELSE 0]]

InitTree ==
    /\ cancel_search = FALSE
    /\ netMode = "fixed"
    /\ osFault = "none"
    /\ GetIdleInit
    /\ ThreadIdle
    /\ LuaIdle
    /\ strict_validation_var \in BOOLEAN
    /\ \E n \in 1..MaxTreeRepos : \E c \in [1..n -> TreeChoices] :
          /\ repos = [i \in 1..n |-> c[i].type]
          /\ origin = [i \in 1..n |-> c[i].host]
          /\ \E src \in 1..n : \E S \in Leftovers :
                /\ Serves(c[src].host, S)
                /\ disk = LeftoverDisk("10", S, src)

SpecTree == InitTree /\ [][Next]_vars

(***************************************************************************)
(* The pipeline started for a game and AppID that an earlier run already   *)
(* produced an output for: "<name> - <appid>.zip" is the path of the       *)
(* archive a Branch repository delivers (src/app.py:2105-2107) and of the  *)
(* archive zip_outcome assembles for repositories that are not Encrypted   *)
(* (src/app.py:2620-2630).                                                 *)
(***************************************************************************)
RerunChoices == TreeChoices \cup { [type |-> "Branch", host |-> HostNone] }

\* what the earlier run left at "<name> - <appid>.zip": nothing, the
\* archive the archive API produced for repository r, or an archive
\* assembled from the files of repository r
EarlierOutputs(n) ==
    { NoFile }
      \cup { [kind |-> "branch", repo |-> r, entries |-> {}, lua |-> << >>] : r \in 1..n }
      \cup { [kind |-> "assembled", repo |-> r, lua |-> << AddApp("10") >>,
              entries |-> { << "readme.txt", r >> }] : r \in 1..n }

InitRerun ==
    /\ cancel_search = FALSE
    /\ netMode = "fixed"
    /\ osFault = "none"
    /\ GetIdleInit
    /\ ThreadIdle
    /\ LuaIdle
    /\ strict_validation_var \in BOOLEAN
    /\ \E n \in 1..MaxTreeRepos : \E c \in [1..n -> RerunChoices] :
          /\ repos = [i \in 1..n |-> c[i].type]
          /\ origin = [i \in 1..n |-> c[i].host]
          /\ \E z \in EarlierOutputs(n) : disk = [EmptyDisk EXCEPT !["10"].zip = z]

SpecRerun == InitRerun /\ [][Next]_vars

(***************************************************************************)
(* The pipeline on repositories one of which has two key files that name   *)
(* the same depot with different keys.                                     *)
(***************************************************************************)
DocOther == [parses |-> TRUE, depots |-> << DepotEntry("100", TRUE, "CCC") >>]

\* key.vdf with two keys, config.vdf with another key for the first depot
HostKeysDiffer ==
    Hosting("200", "200",
            << Blob("key.vdf"), Blob("config.vdf"), Blob("100_555.manifest") >>,
            AllServed,
            [NoDocs EXCEPT !["key.vdf"] = DocTwo, !["config.vdf"] = DocOther], "200")

KeyChoices == TreeChoices \cup { [type |-> "Decrypted", host |-> HostKeysDiffer] }

InitKeys ==
    /\ cancel_search = FALSE
    /\ netMode = "fixed"
    /\ osFault = "none"
    /\ GetIdleInit
    /\ ThreadIdle
    /\ LuaIdle
    /\ disk = EmptyDisk
    /\ strict_validation_var \in BOOLEAN
    /\ \E n \in 1..MaxTreeRepos : \E c \in [1..n -> KeyChoices] :
          /\ repos = [i \in 1..n |-> c[i].type]
          /\ origin = [i \in 1..n |-> c[i].host]

SpecKeys == InitKeys /\ [][Next]_vars

(***************************************************************************)
(* The same pipeline on a file system that refuses one of the calls of     *)
(* zip_outcome: os.remove (2634), the writing of the archive (2653-2675)   *)
(* or shutil.rmtree (2684).                                                *)
(***************************************************************************)
InitZip ==
    /\ cancel_search = FALSE
    /\ netMode = "fixed"
    /\ osFault \in ZipFaults
    /\ GetIdleInit
    /\ ThreadIdle
    /\ LuaIdle
    /\ strict_validation_var \in BOOLEAN
    /\ \E n \in 1..MaxTreeRepos : \E c \in [1..n -> RerunChoices] :
          /\ repos = [i \in 1..n |-> c[i].type]
          /\ origin = [i \in 1..n |-> c[i].host]
          /\ \E z \in EarlierOutputs(n) :
                disk = [EmptyDisk EXCEPT
                          !["10"].zip = z,
                          !["10"].zipEnc = IF z.kind = "assembled" THEN z ELSE NoFile]

SpecZip == InitZip /\ [][Next]_vars

(***************************************************************************)
(* parse_vdf_to_lua on its own: one call after another, for any list of    *)
(* collected depot keys and any set of .manifest files in the directory.   *)
(***************************************************************************)
\* the .manifest file names of the directory: well-formed names whose depot
\* IDs and GIDs order differently as numbers and as strings, a name with a
\* prefix that is not numeric, and a name with no GID part
LuaNames ==
    {"100_555.manifest", "102_777.manifest", "100_9.manifest", "100_10.manifest",
     "7_777.manifest", "abc_1.manifest", "102.manifest"}

\* the lists of collected depot keys
DepotInfos ==
    { << >>,
      << << "100", "AAA" >> >>,
      << << "100", "AAA" >>, << "101", "BBB" >> >>,
      << << "101", "BBB" >>, << "100", "AAA" >> >>,
      << << "102", "CCC" >>, << "7", "DDD" >> >> }

InitLua ==
    /\ cancel_search = FALSE
    /\ netMode = "fixed"
    /\ osFault = "none"
    /\ GetIdleInit
    /\ ThreadIdle
    /\ \E d \in DepotInfos, M \in SUBSET LuaNames :
          luaArgs = [depot_info |-> d, manifests |-> M]
    /\ lua_lines = << >>
    /\ final_zip_path = "none"
    /\ disk = EmptyDisk
    /\ strict_validation_var = TRUE
    /\ repos = << "Decrypted" >>
    /\ origin = << HostKeyTwo >>

\* a caller runs parse_vdf_to_lua(depot_info, "10", processing_dir)
LuaCall ==
    /\ lua_lines = << >>
    /\ lua_lines' = LuaLines(luaArgs.depot_info, "10", luaArgs.manifests)
    /\ UNCHANGED << luaArgs, final_zip_path, cancel_search, netMode, inflight, getVars, histVars, envVars, thrVars,
                    disk, guiVars, runHist, returnedCancelled >>

SpecLua == InitLua /\ [][LuaCall]_vars

(***************************************************************************)
(* The mirror fetcher on its own: one call of get() after another, for any *)
(* file, every request free to get any answer.                             *)
(***************************************************************************)
FetchRepos == {1}
FetchPaths == {"key.vdf"}

InitGet ==
    /\ cancel_search = FALSE
    /\ netMode = "free"
    /\ osFault = "none"
    /\ GetIdleInit
    /\ ThreadIdle
    /\ LuaIdle
    /\ disk = EmptyDisk
    /\ strict_validation_var = TRUE
    /\ repos = << "Decrypted" >>
    /\ origin = << HostKeyTwo >>

\* a caller awaits self.get(sha, path, repo)
GetCall ==
    /\ getPc \in {"idle", "done"}
    /\ \E r \in FetchRepos, p \in FetchPaths : GetBegin(r, p)
    /\ UNCHANGED << getFrame, reqRepos, inflight >>

NextGet ==
    \/ GetCall
    \/ GetSend
    \/ GetRecvOk
    \/ GetRecv404
    \/ GetRecvTransient
    \/ GetRetrySleep
    \/ GetCycleEnd
    \/ GetCycleSleep
    \/ on_closing

SpecGet == InitGet /\ [][NextGet]_vars

\* the event loop keeps running the coroutine, and every request ends
\* (answer or ClientTimeout(total=20))
FairGet == SpecGet /\ WF_vars(GetStep)

(***************************************************************************)
(* MirrorFetcher properties (checked under SpecGet / FairGet).             *)
(***************************************************************************)
GetDone == getPc = "done"

\* C4: with no cancellation requested, the call goes past every mirror that
\* answers 404 or a transient error; when a mirror answers 200 the call
\* returns the bytes of that mirror, and it returns no bytes only after the
\* last mirror of the last cycle has been asked.
C4_MirrorFallback ==
    (GetDone /\ ~cancel_search) =>
        \/ /\ getWhy = "ok"
           /\ getResult = Bytes(getArg[1], getArg[2], lastReq[2])
        \/ /\ getWhy = "exhausted"
           /\ getResult = None
           /\ lastReq[1] = overall_attempts - 1
           /\ lastReq[2] = NumMirrors

\* mirror 1 answered 404, mirror 2 two transient errors, mirror 3 answered 200
C4_Witness ==
    /\ GetDone /\ ~cancel_search
    /\ getWhy = "ok"
    /\ getResult = Bytes(getArg[1], getArg[2], 3)
    /\ << 0, 1 >> \in got404
    /\ reqCount = 4

\* C5 (as stated): after a 404 from mirror k the next event of the call is
\* never the per-URL retry delay nor another request to k in this cycle: it
\* is the request to mirror k+1, or the end of the cycle when k is the last
\* mirror.
C5_NextIsNextMirror ==
    [][ lastEv = "404" =>
          \/ lastEv' = "404"
          \/ /\ lastEv' = "request"
             /\ lastReq' = << lastReq[1], lastReq[2] + 1, 0 >>
          \/ /\ lastReq[2] = NumMirrors
             /\ \/ lastEv' = "cycle_end"
                \/ lastEv' = "return" /\ getWhy' = "exhausted" ]_vars

\* C5 (amended): after a 404 from mirror k the next event of the call is
\* never the per-URL retry delay nor another request to k in this cycle: it
\* is the request to mirror k+1, or the end of the cycle when k is the last
\* mirror, or, when cancel_search has been set meanwhile, the return of None
\* at the cancellation check that precedes them (lines 1752, 1817).
C5_After404 ==
    [][ lastEv = "404" =>
          \/ lastEv' = "404"
          \/ /\ lastEv' = "request"
             /\ lastReq' = << lastReq[1], lastReq[2] + 1, 0 >>
          \/ /\ lastReq[2] = NumMirrors
             /\ \/ lastEv' = "cycle_end"
                \/ lastEv' = "return" /\ getWhy' = "exhausted"
          \/ /\ cancel_search
             /\ lastEv' = "return"
             /\ getResult' = None ]_vars

\* the first try on mirror 1 answered 404 and the request to mirror 2 is out
C5_Witness ==
    /\ lastEv = "request"
    /\ lastReq = << 0, 2, 0 >>
    /\ got404 = { << 0, 1 >> }
    /\ reqCount = 2

\* C6 (as stated): once mirror k has answered 404, no request goes to mirror
\* k for the rest of the fetch call.
C6_NoRequestAfter404InCall ==
    inflight.kind = "file" =>
        \A c \in 0..(overall_attempts - 1) : << c, inflight.mirror >> \notin got404

\* C6 (amended): once mirror k has answered 404 in a cycle, no further
\* request goes to mirror k during that cycle.
C6_NoRequestAfter404InCycle ==
    inflight.kind = "file" => << attempt, inflight.mirror >> \notin got404

\* second cycle: mirror 1 answered 404 in this cycle too, mirror 2 is asked
C6_Witness ==
    /\ inflight.kind = "file"
    /\ inflight.mirror = 2
    /\ attempt = 1
    /\ << 1, 1 >> \in got404

\* a request step of get(): a new request has been sent
GetRequestStep == lastEv' = "request" /\ reqCount' = reqCount + 1

\* lexicographic order on <<attempt, urlIdx, retry_num>>
ReqBefore(a, b) ==
    \/ a[1] < b[1]
    \/ a[1] = b[1] /\ a[2] < b[2]
    \/ a[1] = b[1] /\ a[2] = b[2] /\ a[3] < b[3]

\* C7: a fetch call sends at most 2 x 6 x 2 = 24 requests, in list order
\* inside each cycle with the origin raw-file service last, it returns
\* NotFound only after the last mirror of the second cycle was exhausted
\* with no 200 answer and no cancellation, and every call terminates.
C7_BoundedFetch ==
    /\ [](reqCount <= 2 * 6 * 2)
    /\ [](url_list[NumMirrors] = "raw.githubusercontent.com" /\ NumMirrors = 6)
    /\ [][ GetRequestStep =>
             /\ lastReq'[1] \in 0..1 /\ lastReq'[2] \in 1..6 /\ lastReq'[3] \in 0..1
             /\ lastReq # << >> => ReqBefore(lastReq, lastReq') ]_vars
    /\ [][ (getWhy' = "exhausted" /\ getWhy # "exhausted") =>
             /\ ~cancel_search
             /\ getResult' = None
             /\ lastReq[1] = 1 /\ lastReq[2] = 6
             /\ reqCount >= 2 * 6 ]_vars
    /\ (getPc = "send") ~> GetDone

\* every mirror answered transient errors only: 24 requests, then NotFound
C7_Witness ==
    /\ GetDone
    /\ getWhy = "exhausted"
    /\ reqCount = 24

\* C8 (as stated): the value returned on cancellation differs from the value
\* returned for NotFound (None, src/app.py:1838).
C8_CancelledDistinct ==
    (GetDone /\ getWhy = "cancelled") => getResult # None

(***************************************************************************)
(* Orchestrator properties (checked under Spec).                           *)
(***************************************************************************)
\* the step sends a request
IssuesRequest == inflight' # NoReq /\ inflight' # inflight

\* the call of _perform_download_operations has returned
RunReturned == pc = "post_run"

\* C1: requests go to the repositories in their configured order, and once
\* an attempt is judged successful the run has returned, with the keys of
\* that repository and the processing directory, and no repository later in
\* the order has received any request.
C1_OrderAndShortCircuit ==
    /\ [][ IssuesRequest => \A r \in reqRepos : r <= inflight'.repo ]_vars
    /\ [](succeededAt # 0 =>
            /\ pc \in {"post_run", "batch_loop", "idle"}
            /\ \A r \in reqRepos : r <= succeededAt
            /\ RunReturned =>
                 outcome = [depots |-> repo_specific_collected_depots,
                            path |-> "dir", branch |-> FALSE])

\* the second of three repositories succeeded with keys, the third was not asked
C1_Witness ==
    /\ RunReturned
    /\ Len(repos) = 3
    /\ succeededAt = 2
    /\ reqRepos = {1, 2}
    /\ Len(outcome.depots) = 2

\* a hosting that resolves, serves every file, and whose key files yield n keys
ResolvesWithKeys(h, n) ==
    /\ h.branch = "200" /\ h.treeSt = "200"
    /\ KeyFilePaths(h.tree) # {}
    /\ \A p \in Paths : h.resp[p] = "200"
    /\ \A p \in KeyFilePaths(h.tree) : Len(ExtractKeys(h.docs[p])) = n

\* strict mode, A fails resolution, B resolves with zero keys, C with two
FailoverScenario ==
    /\ strict_validation_var
    /\ Len(repos) = 3
    /\ \A i \in 1..3 : repos[i] # "Branch"
    /\ origin[1].branch # "200"
    /\ ResolvesWithKeys(origin[2], 0)
    /\ ResolvesWithKeys(origin[3], 2)

\* C2 (as stated): in the failover scenario the run of the AppID ends
\* successful with exactly the two depot keys of C, whatever the trees of B
\* and C are.
C2_FailoverFromC ==
    (FailoverScenario /\ RunReturned /\ app_id = "10" /\ ~cancel_search) =>
        /\ outcome.path = "dir"
        /\ succeededAt = 3
        /\ outcome.depots = << << "100", "AAA" >>, << "101", "BBB" >> >>

\* C3 (as stated): an attempt never uses as cached a file that another
\* repository's attempt wrote, and the archive built from the successful
\* repository holds files of that repository only.
C3_AttemptsIsolated ==
    /\ \A hit \in cacheHits : hit[1] = hit[2]
    /\ \A a \in AppIds : \A z \in {disk[a].zip, disk[a].zipEnc} :
          z.kind = "assembled" => \A e \in z.entries : e[2] = z.repo

\* a step of the download thread: the GUI thread and the search thread are
\* the only ones that write cancel_search and the variables of the GUI
DownloadThreadStep == UNCHANGED << cancel_search, guiVars >>

\* C9: a step the download thread takes while cancel_search is set and no
\* request is in flight sends no request and writes nothing, and an
\* operation that returns in such a step returns its no-result value: the
\* orchestrator ([], None, False), get() None, get_manifest no keys.
C9_CancelledBeforeCall ==
    [][ (cancel_search /\ inflight = NoReq /\ pc # "idle" /\ DownloadThreadStep) =>
          /\ inflight' = NoReq
          /\ reqRepos' = reqRepos
          /\ disk' = disk
          /\ (pc' = "post_run" /\ pc # "post_run") => outcome' = NoOutcome
          /\ (getPc' = "done" /\ getPc # "done") => (getResult' = None /\ reqCount' = reqCount)
          /\ pc \in {"key_loop", "man_loop", "perm_loop", "key_get", "man_get", "perm_get"}
               => repo_specific_collected_depots' = repo_specific_collected_depots
          /\ pc' \in {"idle", "post_run", "key_loop", "man_loop", "perm_loop",
                      "key_get", "man_get", "perm_get"} ]_vars

\* the flag was set after the batch loop started the run and before the head
\* of the repository loop: the orchestrator returned without any request
C9_Witness ==
    /\ cancel_search
    /\ RunReturned
    /\ app_id = "10"
    /\ reqRepos = {}
    /\ outcome = NoOutcome
    /\ ~disk["10"].dir

\* C10 (as stated): when the flag is set while a request of the run is in
\* flight, the run sends no request after that one.
C10_NoRequestAfterCancel ==
    [][ cancelledDuring # "none" => ~IssuesRequest ]_vars

(***************************************************************************)
(* Batch driver properties (checked under Spec).                           *)
(***************************************************************************)
\* C11 (as stated): once the run of an AppID has returned with cancel_search
\* set, the next step of the batch loop ends the thread: nothing is written
\* for that AppID (no script, no archive) and no later AppID is started.
C11_CancelledRunHaltsBatch ==
    [][ (pc = "post_run" /\ returnedCancelled /\ DownloadThreadStep) =>
          /\ pc' = "idle"
          /\ bi' = bi
          /\ disk' = disk ]_vars

\* no repository of the running AppID gave a successful result
NoRepoSucceeded == succeededAt = 0 /\ ~outcome.branch

\* C12: when the run of an AppID returns after no selected repository gave a
\* successful result and cancel_search was never set, the returned outcome
\* has no output path, the next step of the batch loop writes nothing (no
\* script, no archive) and goes on to the next AppID of the list.
C12_FailedRunContinuesBatch ==
    [][ (pc = "post_run" /\ NoRepoSucceeded /\ ~cancelRequested
           /\ DownloadThreadStep) =>
          /\ outcome.path = "none"
          /\ disk' = disk
          /\ pc' = "batch_loop"
          /\ bi' = bi + 1 ]_vars

\* the two selected repositories were asked and failed for the first AppID,
\* nothing was packaged for it and the loop is at the second AppID
C12_Witness ==
    /\ pc = "batch_loop"
    /\ bi = 2
    /\ ~cancelRequested
    /\ reqRepos = {1, 2}
    /\ NoRepoSucceeded
    /\ outcome = NoOutcome
    /\ disk["10"].zip.kind = "none" /\ disk["10"].zipEnc.kind = "none"

(***************************************************************************)
(* Content policy properties (checked under SpecTree).                     *)
(***************************************************************************)
\* a request for a config.vdf of the tree is in flight
ConfigRequested ==
    inflight.kind = "file" /\ BaseLower(getArg[2]) = "config.vdf"

\* the paths of the tree of repository r whose basename is key.vdf
KeyVdfPaths(r) == { q \in KeyFilePaths(origin[r].tree) : BaseLower(q) = "key.vdf" }

\* C13 (as stated): in strict mode no request for config.vdf is sent to a
\* repository whose tree holds a key.vdf whose content parses to at least
\* one key beside the config.vdf.
C13_ConfigNeverRequested ==
    (strict_validation_var /\ ConfigRequested) =>
        ~ \E q \in KeyVdfPaths(inflight.repo) :
              ExtractKeys(origin[inflight.repo].docs[q]) # << >>

\* C13 (amended): in strict mode a request for config.vdf is sent only when
\* no key file has yielded a key in this attempt: every key.vdf of the tree
\* is either not in the directory (it could not be fetched) or the copy in
\* the directory yields no key.
C13_ConfigOnlyWithoutKeys ==
    (strict_validation_var /\ ConfigRequested) =>
        /\ ~key_file_found_and_processed_successfully
        /\ repo_specific_collected_depots = << >>
        /\ \A q \in KeyVdfPaths(inflight.repo) :
              \/ ~Exists(app_id, q)
              \/ ExtractKeys(DocOf(disk[app_id].files[q], q)) = << >>

\* strict run on a tree with key.vdf (two keys) and config.vdf: key.vdf was
\* fetched, the attempt succeeded with its keys, config.vdf was never asked
C13_Witness ==
    /\ strict_validation_var
    /\ RunReturned
    /\ origin[1] = HostBoth
    /\ succeededAt = 1
    /\ disk["10"].files["key.vdf"] = 1
    /\ cacheHits = {}
    /\ outcome.depots = << << "100", "AAA" >>, << "101", "BBB" >> >>
    /\ ~Exists("10", "config.vdf")

\* repository r wrote at least one file during its attempt
WroteFile(r) == \E p \in Paths : << r, p >> \in written

\* C14 (as stated): in strict mode an attempt is judged successful only if
\* it extracted at least one key and wrote at least one file; keys read
\* from a key file already in the directory, with no file written, do not
\* make the attempt successful.
C14_StrictSuccessNeedsWrite ==
    (strict_validation_var /\ succeededAt # 0) =>
        /\ repo_specific_collected_depots # << >>
        /\ WroteFile(succeededAt)

\* the repository loop of the running AppID is at a file loop of repository ri
InFileLoop ==
    pc \in {"key_loop", "man_loop", "perm_loop", "key_get", "man_get", "perm_get"}

\* C15 (as stated): in permissive mode the attempt judged successful has
\* written at least one file, an attempt judged unsuccessful has written
\* none, and files_downloaded_or_processed_this_repo is true only if the
\* running attempt has written a file.
C15_PermissiveSuccessIffWrite ==
    ~strict_validation_var =>
        /\ succeededAt # 0 => WroteFile(succeededAt)
        /\ (pc \notin {"idle", "batch_loop"}) =>
               \A r \in 1..Len(repos) : r < ri => ~WroteFile(r)
        /\ (InFileLoop /\ files_downloaded_or_processed_this_repo) => WroteFile(ri)

\* a step of PostRun that archives the processing directory of the AppID
Packaging == pc = "post_run" /\ disk[app_id].dir /\ ~disk'[app_id].dir

\* the archive that zip_outcome writes for the selected repositories
ArchiveOf(d) == IF is_encrypted_source THEN d.zipEnc ELSE d.zip

KeyFileNames == {"key.vdf", "config.vdf"}

\* C16: packaging leaves a file of the processing directory out of the archive
\* if and only if strict mode is active and the file's basename, lower-cased,
\* is key.vdf or config.vdf; every other file is an entry with its content,
\* and the archive has no entry that is not a file of the directory.
C16_ExcludedIffStrictKeyFile ==
    [][ Packaging =>
          LET entries == ArchiveOf(disk'[app_id]).entries IN
          /\ \A p \in Paths : disk[app_id].files[p] # 0 =>
                ( (\A e \in entries : e[1] # p)
                    <=> (strict_validation_var /\ BaseLower(p) \in KeyFileNames) )
          /\ \A e \in entries : disk[app_id].files[e[1]] = e[2] /\ e[2] # 0
      ]_vars

\* a strict run was packaged whose directory held a key file in a
\* subdirectory with a mixed-case name and config.vdf, both written by the run
C16_Witness ==
    /\ strict_validation_var
    /\ pc = "batch_loop"
    /\ bi = 2
    /\ succeededAt # 0
    /\ << succeededAt, "Sub/Key.vdf" >> \in written
    /\ << succeededAt, "config.vdf" >> \in written
    /\ disk["10"].zip.kind = "assembled"
    /\ disk["10"].zip.entries # {}
    /\ \A e \in disk["10"].zip.entries : BaseLower(e[1]) \notin KeyFileNames

\* the pairs parsed from the key files of repository r in this run, in the
\* order of parsing, repetitions included
RECURSIVE PairsOf(_, _)
PairsOf(seq, r) ==
    IF seq = << >> THEN << >>
    ELSE (IF Head(seq)[1] = r THEN << Head(seq)[2] >> ELSE << >>) \o PairsOf(Tail(seq), r)

FirstIndex(x, seq) == CHOOSE i \in 1..Len(seq) : seq[i] = x /\ \A j \in 1..(i - 1) : seq[j] # x

\* list holds every element of seq once, in the order of first occurrence
IsFirstSeen(list, seq) ==
    /\ \A i, j \in 1..Len(list) : i # j => list[i] # list[j]
    /\ { list[i] : i \in 1..Len(list) } = { seq[i] : i \in 1..Len(seq) }
    /\ \A i, j \in 1..Len(list) : i < j => FirstIndex(list[i], seq) < FirstIndex(list[j], seq)

\* C17: the depot-key list of an attempt holds each (depot id, key) pair
\* parsed so far exactly once, in the order in which the pairs were first
\* seen, whether the key files were fetched or read from the directory; so
\* does the list a successful run returns.
C17_KeysOnceInFirstSeenOrder ==
    /\ InFileLoop =>
          IsFirstSeen(repo_specific_collected_depots, PairsOf(parsed, ri))
    /\ (pc = "post_run" /\ succeededAt # 0) =>
          IsFirstSeen(outcome.depots, PairsOf(parsed, succeededAt))

\* a permissive attempt parsed config.vdf from the network and key.vdf
\* from the directory; the pair they share is in the list once
C17_Witness ==
    /\ pc = "post_run"
    /\ succeededAt # 0
    /\ << succeededAt, "config.vdf" >> \in written
    /\ \E src \in 1..Len(repos) : << succeededAt, src, "key.vdf" >> \in cacheHits
    /\ PairsOf(parsed, succeededAt) = << << "100", "AAA" >>, << "100", "AAA" >>, << "101", "BBB" >> >>
    /\ outcome.depots = << << "100", "AAA" >>, << "101", "BBB" >> >>

\* a run of _perform_download_operations is under way or has just returned
InRun == pc \notin {"idle", "batch_loop"}

\* a step that sends a request for the file p to a mirror
RequestsFile(p) == IssuesRequest /\ inflight'.kind = "file" /\ getArg[2] = p

\* C18: a .manifest file that the processing directory of the AppID already
\* holds is never requested from any mirror by a run for that AppID, and the
\* run leaves the file as it is; when the run ends with packaging, the
\* archive holds the file with that content.
C18_ExistingManifestKept ==
    [][ \A p \in Paths : (InRun /\ IsManifest(p) /\ Exists(app_id, p)) =>
          /\ ~RequestsFile(p)
          /\ IF Packaging
               THEN << p, disk[app_id].files[p] >> \in ArchiveOf(disk'[app_id]).entries
               ELSE disk'[app_id].files[p] = disk[app_id].files[p]
      ]_vars

\* a run has returned that found 100_555.manifest in the directory, left by
\* another repository than the one whose attempt used it, and wrote no
\* manifest itself
C18_Witness ==
    /\ pc = "post_run"
    /\ \E r, src \in 1..Len(repos) :
          /\ r # src
          /\ << r, src, "100_555.manifest" >> \in cacheHits
          /\ disk["10"].files["100_555.manifest"] = src
    /\ \A r \in 1..Len(repos) : << r, "100_555.manifest" >> \notin written

\* C19: a file that the processing directory of the AppID already holds is
\* never requested from any mirror by a run for that AppID and keeps its
\* content as long as the directory exists, whatever kind of file it is.
C19_ExistingFileAuthoritative ==
    [][ \A p \in Paths : (InRun /\ Exists(app_id, p)) =>
          /\ ~RequestsFile(p)
          /\ ~Packaging => disk'[app_id].files[p] = disk[app_id].files[p]
      ]_vars

\* the run returns while the repository in turn is a Branch repository
ReturnsFromBranchRepo ==
    /\ pc # "post_run"
    /\ pc' = "post_run"
    /\ ri \in 1..Len(repos)
    /\ repos[ri] = "Branch"

\* C20: an outcome returned from a Branch repository has an empty depot
\* list, and so has every outcome flagged as coming from a Branch repository;
\* for a flagged outcome the batch driver writes no script and no archive,
\* and removes nothing: the disk is as the run left it.
C20_BranchOutcomeNotPackaged ==
    /\ [](outcome.branch => outcome.depots = << >>)
    /\ [][ ReturnsFromBranchRepo => outcome'.depots = << >> ]_vars
    /\ [][ (pc = "post_run" /\ outcome.branch) => disk' = disk ]_vars

\* the batch driver has handled a Branch outcome of the first AppID: the
\* branch archive is on disk, and the directory a failed attempt of an
\* earlier repository left is still there, without a script
C20_Witness ==
    /\ pc = "batch_loop"
    /\ bi = 2
    /\ outcome.branch
    /\ outcome.path = "zip"
    /\ disk["10"].zip.kind = "branch"
    /\ disk["10"].dir
    /\ disk["10"].lua = << >>
    /\ disk["10"].zipEnc.kind = "none"

\* the run has returned success from the Branch repository in turn
BranchSuccess == pc = "post_run" /\ outcome.branch /\ outcome.path = "zip"

\* C21: when a run returns success from a Branch repository, the file at
\* the returned path "<name> - <appid>.zip" is the archive that the archive
\* API produced for that repository, whatever earlier runs left there.
C21_BranchOutputIsOriginArchive ==
    BranchSuccess =>
        /\ disk[app_id].zip.kind = "branch"
        /\ disk[app_id].zip.repo = ri

\* the run starts with a Branch repository as the only selected repository
OnlyBranchSelected == Len(repos) = 1 /\ repos[1] = "Branch"

\* C22: when the only selected repository is a Branch repository and a file
\* exists at "<name> - <appid>.zip", the run (not cancelled) returns in its
\* first step: no request is sent, nothing on disk changes, and the outcome
\* is success with that path.
C22_ExistingBranchZipSkipsFetch ==
    [][ ( /\ pc = "repo_loop" /\ ri = 1
          /\ OnlyBranchSelected
          /\ disk[app_id].zip # NoFile
          /\ ~cancel_search
          /\ DownloadThreadStep )
        => /\ pc' = "post_run"
           /\ outcome' = [depots |-> << >>, path |-> "zip", branch |-> TRUE]
           /\ inflight' = NoReq
           /\ reqRepos' = {}
           /\ disk' = disk
      ]_vars

\* such a run has returned: no repository got a request, and the file an
\* earlier run assembled is still at the path
C22_Witness ==
    /\ pc = "post_run"
    /\ OnlyBranchSelected
    /\ BranchSuccess
    /\ reqRepos = {}
    /\ inflight = NoReq
    /\ disk["10"].zip.kind = "assembled"

\* the repository loop is at a Branch repository
AtBranchRepo ==
    /\ pc \in {"repo_loop", "zip_wait"}
    /\ ri \in 1..Len(repos)
    /\ repos[ri] = "Branch"

C24_SuffixFromContributingRepo ==
    \A a \in AppIds :
        /\ disk[a].zipEnc.kind = "assembled" => repos[disk[a].zipEnc.repo] = "Encrypted"
        /\ disk[a].zip.kind = "assembled" => repos[disk[a].zip.repo] # "Encrypted"

\* the name has the form <numeric depot ID>_<non-empty GID>.manifest
WellFormed(p) == ManifestName(p).digits /\ ManifestName(p).gid # ""

\* order of the claim: numeric depot ID ascending, then GID ascending (the
\* GID is text and compares as text)
SortsBefore(p, q) ==
    \/ ManifestName(p).depotInt < ManifestName(q).depotInt
    \/ /\ ManifestName(p).depotInt = ManifestName(q).depotInt
       /\ ManifestName(p).gidRank < ManifestName(q).gidRank

\* the depots registered with a key
KeyedDepots == { luaArgs.depot_info[i][1] : i \in 1..Len(luaArgs.depot_info) }

\* a parse_vdf_to_lua call made on its own has returned
LuaReturned == lua_lines # << >>

\* the position of the set-manifest-id directive of the file p in the script
PosOf(p) ==
    CHOOSE k \in 1..Len(lua_lines) :
        lua_lines[k] = << "setManifestid", ManifestName(p).depot, ManifestName(p).gid, "0" >>

\* the script is the registration of the AppID, then one keyed
\* registration per collected depot key in collected order, then one
\* set-manifest-id directive per manifest file of M in the order (numeric
\* depot ID, GID), each preceded by a plain registration of its depot
\* exactly when the depot has no key and no earlier manifest in M; the
\* script holds no other line
ScriptHasLayout(M) ==
    LET d == luaArgs.depot_info
        n == Len(d)
        L == lua_lines
        first(p) == ManifestName(p).depot \notin KeyedDepots
                    /\ ~ \E q \in M : /\ ManifestName(q).depot = ManifestName(p).depot
                                      /\ SortsBefore(q, p)
    IN  /\ L[1] = << "addappid", "10" >>
        /\ Len(L) = 1 + n + Cardinality(M) + Cardinality({ p \in M : first(p) })
        /\ \A i \in 1..n : L[1 + i] = << "addappid", d[i][1], "1", d[i][2] >>
        /\ \A p \in M :
              /\ \E k \in (n + 2)..Len(L) :
                    L[k] = << "setManifestid", ManifestName(p).depot,
                              ManifestName(p).gid, "0" >>
              /\ first(p) <=> L[PosOf(p) - 1] = << "addappid", ManifestName(p).depot >>
        /\ \A p, q \in M : SortsBefore(p, q) => PosOf(p) < PosOf(q)

\* C25: when every manifest file of the directory has a well-formed name,
\* the script has the layout above for the files of the directory, in
\* particular no depot is registered twice.
C25_ScriptLayout ==
    (LuaReturned /\ \A p \in luaArgs.manifests : WellFormed(p)) =>
        ScriptHasLayout(luaArgs.manifests)

\* the example of the claim: depots (100,AAA), (101,BBB), manifests
\* 100_555 and 102_777; depot 100 is not registered a second time
C25_Witness ==
    /\ luaArgs = [depot_info |-> << << "100", "AAA" >>, << "101", "BBB" >> >>,
                  manifests |-> {"100_555.manifest", "102_777.manifest"}]
    /\ lua_lines = << << "addappid", "10" >>,
                      << "addappid", "100", "1", "AAA" >>,
                      << "addappid", "101", "1", "BBB" >>,
                      << "setManifestid", "100", "555", "0" >>,
                      << "addappid", "102" >>,
                      << "setManifestid", "102", "777", "0" >> >>

\* C26: manifest files whose name is not well-formed add nothing to the
\* script: the script is the one of the well-formed files alone.
C26_MalformedNameAddsNothing ==
    (LuaReturned /\ \E p \in luaArgs.manifests : ~WellFormed(p)) =>
        ScriptHasLayout({ p \in luaArgs.manifests : WellFormed(p) })

\* the host a request of the download thread is sent to
RequestHost(req) == IF req.kind = "file" THEN url_list[req.mirror] ELSE "api.github.com"

\* the hosts of the origin: its API and its raw-file service
OriginHosts == {"api.github.com", "raw.githubusercontent.com"}

\* with a token configured, the request carries the Authorization header
\* (src/app.py:1762-1763, 1979-1980, 2193-2198, 2242)
CarriesToken(req) == IF req.kind = "file" THEN NamesRawHost(req.mirror) ELSE TRUE

\* C27: with a token configured, a request carries the Authorization header
\* if and only if its host is a host of the origin; no mirror gets the token.
C27_TokenOnlyToOrigin ==
    inflight # NoReq => (CarriesToken(inflight) <=> RequestHost(inflight) \in OriginHosts)

\* the number of run_batch_download threads that are alive
RunningBatches == (IF pc = "idle" THEN 0 ELSE 1) + extraBatches

\* C28: whatever the user does, at most one batch download is running.
C28_OneBatchAtATime == RunningBatches <= 1

\* the step that judges an attempt after its file loops (lines 2445-2455)
JudgeStep ==
    /\ pc \in {"man_loop", "perm_loop"}
    /\ pc' \in {"post_run", "repo_loop"}
    /\ ~cancel_search

\* the mode the download thread reads in this step
ModeRead == IF strict_validation_var THEN "strict" ELSE "permissive"

\* C29: the success criterion of an attempt and the archive filter of the
\* run read the same mode as the content selection of that attempt did,
\* whatever the user does with the strict-validation setting meanwhile.
C29_ModeFixedForRun ==
    [][ (JudgeStep \/ Packaging) => ModeRead = modeAtSelection ]_vars

\* the phases of an AppID run
Phase(p) ==
    CASE p \in {"idle", "batch_loop"} -> "Idle"
      [] p \in {"repo_loop", "branch_wait", "tree_wait"} -> "ResolvingRepo"
      [] p = "zip_wait" -> "PassThroughFetch"
      [] p \in {"key_loop", "key_get", "man_loop", "man_get",
                "perm_loop", "perm_get"} -> "TreeProcessing"
      [] p = "post_run" -> "Returned"

\* a run starts from Idle; each repository in turn is resolved and then
\* fetched as an archive or processed as a tree; an attempt that fails goes
\* back to the resolution of the next repository; every phase can return
PhaseOrder ==
    { << "Idle", "ResolvingRepo" >>,
      << "ResolvingRepo", "PassThroughFetch" >>,
      << "ResolvingRepo", "TreeProcessing" >>,
      << "PassThroughFetch", "ResolvingRepo" >>,
      << "TreeProcessing", "ResolvingRepo" >>,
      << "ResolvingRepo", "Returned" >>,
      << "PassThroughFetch", "Returned" >>,
      << "TreeProcessing", "Returned" >>,
      << "Returned", "Idle" >> }

\* the batch driver handles what the run returned (lines 1615-1717)
RunEnds == pc = "post_run" /\ pc' # "post_run"

RunCancelled == RunEnds /\ cancel_search

RunDone ==
    /\ RunEnds
    /\ ~cancel_search
    /\ succeededAt # 0 \/ outcome.branch
    /\ \/ /\ Packaging
          /\ ArchiveOf(disk'[app_id]).kind = "assembled"
          /\ ArchiveOf(disk'[app_id]).repo = succeededAt
       \/ /\ outcome.branch
          /\ outcome.path = "zip"
          /\ disk[app_id].zip # NoFile
          /\ UNCHANGED disk

RunFailed ==
    /\ RunEnds
    /\ ~cancel_search
    /\ outcome.path = "none"
    /\ succeededAt = 0
    /\ UNCHANGED disk

ExactlyOne(a, b, c) ==
    \/ a /\ ~b /\ ~c
    \/ ~a /\ b /\ ~c
    \/ ~a /\ ~b /\ c

\* C30: every AppID run ends, and ends in exactly one of Done, Failed and
\* Cancelled; its phases follow Idle, ResolvingRepo, then PassThroughFetch or
\* TreeProcessing for each repository in turn; the script and the archive are
\* made only for a run that returned from a tree-processing attempt judged
\* successful, never for a failed or a cancelled run.
C30_RunReachesOneTerminalState ==
    /\ [][ Phase(pc') # Phase(pc) => << Phase(pc), Phase(pc') >> \in PhaseOrder ]_vars
    /\ [][ RunEnds => ExactlyOne(RunDone, RunFailed, RunCancelled) ]_vars
    /\ [][ Packaging =>
             /\ succeededAt # 0
             /\ repos[succeededAt] # "Branch"
             /\ outcome.path = "dir"
             /\ ~outcome.branch
             /\ ~returnedCancelled
             /\ ~cancel_search ]_vars
    /\ [][ (Phase(pc) = "TreeProcessing" /\ pc' = "post_run" /\ outcome'.path = "dir") =>
             succeededAt' = ri /\ ~cancel_search ]_vars
    /\ InRun ~> ~InRun

\* the first repository failed, the second one was judged successful, and the
\* batch driver has packaged its directory
C30_Witness ==
    /\ pc = "batch_loop"
    /\ bi = 2
    /\ ~cancel_search
    /\ succeededAt = 2
    /\ reqRepos = {1, 2}
    /\ outcome.path = "dir"
    /\ ~disk["10"].dir
    /\ ArchiveOf(disk["10"]).kind = "assembled"
    /\ ArchiveOf(disk["10"]).repo = 2

\* the batch driver calls zip_outcome in this step (lines 1623-1657)
ZipCall ==
    /\ pc = "post_run"
    /\ pc' = "batch_loop"
    /\ ~BatchCancelled
    /\ PackagesOutcome(outcome)

\* what zip_outcome writes from the directory d when nothing fails
FreshEntries(d) ==
    { << p, d.files[p] >> : p \in { q \in Paths :
          d.files[q] # 0 /\ ~ExcludedFromZip(strict_validation_var, q) } }

\* C31: packaging removes an archive of the same name before it writes (the
\* new archive holds nothing of the old one, and a failed write does not leave
\* the old one), the processing directory is deleted only when the new
\* archive was written, and when removing the old archive or writing the new
\* one fails the directory and its files stay as they were and no path is
\* returned.
C31_PackagingOrderAndFailure ==
    /\ [][ (ZipCall /\ final_zip_path' # "none") =>
             /\ ArchiveOf(disk'[app_id]).kind = "assembled"
             /\ ArchiveOf(disk'[app_id]).repo = succeededAt
             /\ ArchiveOf(disk'[app_id]).entries = FreshEntries(disk[app_id]) ]_vars
    /\ [][ (ZipCall /\ osFault = "write" /\ ArchiveOf(disk[app_id]) # NoFile) =>
             ArchiveOf(disk'[app_id]) = Truncated ]_vars
    /\ [][ (ZipCall /\ ~disk'[app_id].dir) =>
             /\ final_zip_path' # "none"
             /\ ArchiveOf(disk'[app_id]).kind = "assembled" ]_vars
    /\ [][ (ZipCall /\ (RemoveFails(disk[app_id]) \/ WriteFails)) =>
             /\ disk'[app_id].dir
             /\ disk'[app_id].files = disk[app_id].files
             /\ final_zip_path' = "none" ]_vars

\* the archive of an earlier run could not be removed: it is still there, and
\* so is the directory of the successful attempt, with the script
C31_Witness ==
    /\ osFault = "remove"
    /\ pc = "batch_loop"
    /\ bi = 2
    /\ succeededAt # 0
    /\ final_zip_path = "none"
    /\ disk["10"].dir
    /\ disk["10"].lua # << >>
    /\ ArchiveOf(disk["10"]).kind = "assembled"
    /\ \E p \in Paths : disk["10"].files[p] # 0

\* the paths of the tree of repository r whose basename is config.vdf
ConfigVdfPaths(r) == { q \in KeyFilePaths(origin[r].tree) : BaseLower(q) = "config.vdf" }

\* position of a key file of the tree in the order of the key loop
KeyFileIndex(q) ==
    CHOOSE i \in 1..Len(prioritized_key_files) : prioritized_key_files[i] = q

\* the copy of q in the processing directory holds at least one key
YieldsOnDisk(q) ==
    Exists(app_id, q) /\ ExtractKeys(DocOf(disk[app_id].files[q], q)) # << >>

InKeyLoop == strict_validation_var /\ pc \in {"key_loop", "key_get"}

\* the key loop hands the key file at position fi to get_manifest
KeyFileCall ==
    /\ InKeyLoop
    /\ pc = "key_loop"
    /\ fi <= Len(prioritized_key_files)
    /\ ~FileLoopCancelled
    /\ pc' = "key_get" \/ fi' # fi

\* the key loop leaves out the key files that follow position fi
KeyLoopStopsEarly ==
    /\ InKeyLoop
    /\ pc' = "key_loop"
    /\ fi' > fi + 1

\* C32: in strict mode every key.vdf of the tree comes before every
\* config.vdf; a config.vdf is processed only after every key.vdf was, none of
\* them having yielded a key; the key loop leaves out key files only after a
\* key.vdf has yielded at least one key; and when no key.vdf has yielded a
\* key, the keys of every config.vdf that could be obtained are accumulated.
C32_KeyVdfFirstStopOnlyOnKeys ==
    /\ [](InKeyLoop =>
            \A i, j \in 1..Len(prioritized_key_files) :
                (BaseLower(prioritized_key_files[i]) = "key.vdf"
                   /\ BaseLower(prioritized_key_files[j]) = "config.vdf") => i < j)
    /\ [][ (KeyFileCall /\ BaseLower(prioritized_key_files[fi]) = "config.vdf") =>
             \A q \in KeyVdfPaths(ri) :
                 KeyFileIndex(q) < fi /\ ~YieldsOnDisk(q) ]_vars
    /\ [][ KeyLoopStopsEarly =>
             /\ BaseLower(prioritized_key_files[fi]) = "key.vdf"
             /\ key_file_found_and_processed_successfully'
             /\ repo_specific_collected_depots' # << >>
             /\ ExtractKeys(DocOf(disk'[app_id].files[prioritized_key_files[fi]],
                                  prioritized_key_files[fi])) # << >> ]_vars
    /\ []((strict_validation_var /\ pc \in {"man_loop", "man_get"}
             /\ \A q \in KeyVdfPaths(ri) : ~YieldsOnDisk(q)) =>
            \A q \in ConfigVdfPaths(ri) :
                Exists(app_id, q) =>
                   LET keys == ExtractKeys(DocOf(disk[app_id].files[q], q))
                   IN  \A i \in 1..Len(keys) :
                          InSeq(keys[i], repo_specific_collected_depots))

\* strict attempt on a tree whose key.vdf no mirror has: config.vdf was
\* fetched after it, and the key of config.vdf is collected when the manifest
\* loop runs
C32_Witness ==
    /\ strict_validation_var
    /\ pc = "man_loop"
    /\ origin[ri] = HostBothKeyLost
    /\ ~Exists(app_id, "key.vdf")
    /\ << ri, "config.vdf" >> \in written
    /\ key_file_found_and_processed_successfully
    /\ Len(repo_specific_collected_depots) = 1

\* entry i of the tree is a blob whose path ends in .manifest
ManifestEntry(i) == tree_items[i].type = "blob" /\ IsManifest(tree_items[i].path)

InManifestLoop == strict_validation_var /\ pc \in {"man_loop", "man_get"}

\* C33: in strict mode the manifest loop starts only when the key loop has
\* run through, passes over no .manifest blob of the tree, hands each of them
\* to get_manifest, which sends a request for it unless the file is already in
\* the processing directory, and ends only behind the last entry unless the
\* download is cancelled; whether a key was extracted plays no part, and no
\* request for a manifest is sent before the manifest loop.
C33_EveryManifestProcessed ==
    /\ [][ (strict_validation_var /\ pc # "man_loop" /\ pc' = "man_loop") =>
             \/ pc = "man_get"
             \/ /\ pc = "key_loop"
                /\ fi > Len(prioritized_key_files)
                /\ \A i \in 1..Len(tree_items) : i < fi' => ~ManifestEntry(i) ]_vars
    /\ [][ (InManifestLoop /\ pc' \in {"man_loop", "man_get"}) =>
             \A i \in 1..Len(tree_items) :
                 (fi <= i /\ i < fi' /\ ManifestEntry(i)) =>
                     /\ i = fi
                     /\ pc = "man_get" \/ UsesLocal(tree_items[i].path) ]_vars
    /\ [][ (InManifestLoop /\ pc = "man_loop" /\ pc' = "man_get") =>
             /\ ManifestEntry(fi)
             /\ ~Exists(app_id, tree_items[fi].path)
             /\ getArg' = << ri, tree_items[fi].path >> ]_vars
    /\ [][ (InManifestLoop /\ pc' \notin {"man_loop", "man_get"} /\ ~cancel_search) =>
             /\ fi > Len(tree_items)
             /\ \A i \in 1..Len(tree_items) :
                   (ManifestEntry(i) /\ HostOf(ri).resp[tree_items[i].path] = "200") =>
                       Exists(app_id, tree_items[i].path) ]_vars
    /\ []((strict_validation_var /\ inflight.kind = "file" /\ IsManifest(getArg[2])) =>
            pc = "man_get")

\* strict attempt on a tree whose key.vdf holds no key: no key was extracted,
\* and the manifest of the tree was fetched and written all the same
C33_Witness ==
    /\ strict_validation_var
    /\ ~cancel_search
    /\ pc = "man_loop"
    /\ fi > Len(tree_items)
    /\ origin[ri] = HostKeyEmpty
    /\ repo_specific_collected_depots = << >>
    /\ ~key_file_found_and_processed_successfully
    /\ << ri, "100_555.manifest" >> \in written
    /\ cacheHits = {}

\* what the origin answers makes the lookup of repository r fail
LookupFailsFor(r) ==
    \/ HostOf(r).branch # "200"
    \/ HostOf(r).treeSt # "200"
    \/ HostOf(r).tree = << >>

\* the step in which the failed lookup of the repository in turn is handled
LookupFailure ==
    /\ \/ pc = "branch_wait" /\ HostOf(ri).branch # "200"
       \/ pc = "tree_wait" /\ (HostOf(ri).treeSt # "200" \/ tree_items = << >>)
    /\ pc' # pc

\* C34: when the branch or the tree lookup of a repository fails, the loop
\* goes on to the next selected repository with nothing in flight, the disk
\* and the collected keys as they were; no file request is ever sent to such
\* a repository and no file is written or parsed from it.
C34_LookupFailureAdvances ==
    /\ [][ LookupFailure =>
             /\ pc' = "repo_loop"
             /\ ri' = ri + 1
             /\ inflight' = NoReq
             /\ UNCHANGED << disk, written, cacheHits, parsed, outcome,
                             overall_collected_depots, succeededAt >> ]_vars
    /\ []((InRun /\ inflight.kind = "file") => ~LookupFailsFor(inflight.repo))
    /\ [](InRun =>
            /\ \A w \in written : ~LookupFailsFor(w[1])
            /\ \A h \in cacheHits : ~LookupFailsFor(h[1])
            /\ \A i \in 1..Len(parsed) : ~LookupFailsFor(parsed[i][1])
            /\ succeededAt # 0 => (repos[succeededAt] = "Branch"
                                     \/ ~LookupFailsFor(succeededAt)))

\* the branch lookup of the first repository and the tree lookup of the
\* second one have failed: the third repository is in turn, nothing was
\* fetched or written
C34_Witness ==
    /\ pc = "repo_loop"
    /\ ri = 3
    /\ Len(repos) = 3
    /\ origin[1] = HostNone /\ repos[1] # "Branch"
    /\ origin[2] = HostNoTree
    /\ reqRepos = {1, 2}
    /\ written = {}
    /\ disk["10"].files = NoFiles
    /\ ~cancel_search

\* get_manifest ends in this step for a .vdf file whose content (fetched, or
\* read from the file already in the directory) does not parse
ParseFailure ==
    /\ ~cancel_search
    /\ \/ /\ pc \in {"key_get", "perm_get"}
          /\ pc' # pc
          /\ getPc = "done"
          /\ getResult # None
          /\ IsVdf(CurrentPath)
          /\ ~DocOf(getResult.repo, CurrentPath).parses
       \/ /\ pc \in {"key_loop", "perm_loop"}
          /\ cacheHits' # cacheHits
          /\ IsVdf(CurrentPath)
          /\ ~DocOf(disk[app_id].files[CurrentPath], CurrentPath).parses

\* C35: a key file that does not parse adds no key and ends nothing: the
\* keys collected so far stay as they are, nothing is recorded as parsed, and
\* the same loop goes on with the entry after the file.
C35_ParseFailureYieldsNothing ==
    [][ ParseFailure =>
          /\ repo_specific_collected_depots' = repo_specific_collected_depots
          /\ overall_collected_depots' = overall_collected_depots
          /\ parsed' = parsed
          /\ key_file_found_and_processed_successfully' =
                key_file_found_and_processed_successfully
          /\ fi' = fi + 1
          /\ pc' = (IF pc \in {"key_get", "key_loop"} THEN "key_loop" ELSE "perm_loop")
          /\ ri' = ri ]_vars

\* permissive attempt: config.vdf gave one key, Sub/Key.vdf was fetched and
\* did not parse, the key is still collected and the manifest that follows in
\* the tree was fetched
C35_Witness ==
    /\ ~strict_validation_var
    /\ pc = "perm_loop"
    /\ origin[ri] = HostFlaky
    /\ fi > Len(tree_items)
    /\ << ri, "config.vdf" >> \in written
    /\ << ri, "Sub/Key.vdf" >> \in written
    /\ << ri, "100_555.manifest" >> \in written
    /\ repo_specific_collected_depots = << << "100", "AAA" >> >>

\* no two registration directives of the script name the same ID
RegisteredOnce(lines) ==
    \A i, j \in 1..Len(lines) :
        (i # j /\ lines[i][1] = "addappid" /\ lines[j][1] = "addappid") =>
            lines[i][2] # lines[j][2]

\* C36: in the script of every archive the pipeline has assembled, each depot
\* ID is registered at most once, with a key or without.
C36_DepotRegisteredOnce ==
    \A a \in AppIds :
        /\ RegisteredOnce(disk[a].zip.lua)
        /\ RegisteredOnce(disk[a].zipEnc.lua)

\* C37: when the batch driver has handled a run that ended in Done or in
\* Failed (it was not cancelled), the processing directory of the AppID is
\* not on disk.
C37_NoDirectoryAfterRun ==
    [][ (RunEnds /\ ~cancel_search) => ~disk'[app_id].dir ]_vars

\* the keys of the outcome, as a set
OutcomeKeys == { outcome.depots[i] : i \in 1..Len(outcome.depots) }

\* C38: an outcome carries depot keys only together with the processing
\* directory of a KeySource attempt judged successful, and then exactly the
\* keys parsed in that attempt; an outcome of a run without a successful
\* attempt, or of a cancelled run, has no path and no key; no key parsed only
\* in an attempt that was not the successful one is in an outcome.
C38_OutcomeShape ==
    RunReturned =>
        /\ outcome.depots # << >> =>
              /\ outcome.path = "dir"
              /\ ~outcome.branch
              /\ succeededAt # 0
              /\ repos[succeededAt] # "Branch"
              /\ ~returnedCancelled
        /\ (succeededAt = 0 /\ ~outcome.branch) =>
              outcome.path = "none" /\ outcome.depots = << >>
        /\ returnedCancelled =>
              outcome.path = "none" /\ outcome.depots = << >>
        /\ \A k \in OutcomeKeys :
              \E i \in 1..Len(parsed) : parsed[i] = << succeededAt, k >>
        /\ \A i \in 1..Len(parsed) :
              parsed[i][1] # succeededAt => parsed[i][2] \notin OutcomeKeys

\* the run was cancelled in the key loop of an attempt that had already
\* parsed a key: it has returned without path and without keys
C38_Witness ==
    /\ RunReturned
    /\ returnedCancelled
    /\ parsed # << >>
    /\ repo_specific_collected_depots # << >>
    /\ outcome = NoOutcome

\* the download thread finds cancel_search set at one of its checks and
\* returns from the run or ends the batch
ObservesCancel ==
    /\ cancel_search
    /\ pc # "idle"
    /\ pc' # pc
    /\ pc' \in {"post_run", "idle"}
    /\ pc = "batch_loop" => bi <= Len(appids_to_download)
    /\ pc = "repo_loop" => ri <= Len(repos)

\* C39: the download thread finds the cancellation flag set only after the
\* window was closed; a search started or restarted during the batch does not
\* make the download stop.
C39_SearchNeverStopsDownload ==
    [][ ObservesCancel => window = "destroyed" ]_vars

====
